---- MODULE Spec2Model ----
(***************************************************************************)
(* A state-machine model of the client-side code of 112energie-v2:         *)
(*   - ComponentManager, the HTML fragment loader and its cache            *)
(*     (112energie-critical/src/scripts/components.js),                    *)
(*   - the ripple and aurora button decorators (buttons.js, script.js),    *)
(*   - the cookie-consent banner,                                          *)
(*   - the energy calculators,                                             *)
(*   - the particle systems and the navigation handlers,                   *)
(*   - the energy monitor's socket and the form handlers,                  *)
(*   - the service worker (sw.js),                                         *)
(*   - the hero typewriter,                                                *)
(*   - the debounce and throttle wrappers,                                 *)
(*   - the calculator's step wizard, and                                   *)
(*   - the energy monitors' chart buffers.                                 *)
(* Every subsystem has its own next-state relation and specification; the  *)
(* variables of the other subsystems stay as Init left them.               *)
(***************************************************************************)
EXTENDS Integers, Sequences, FiniteSets, TLC

VARIABLES
    \* ---- ComponentManager and the document it works on
    loads,             \* the calls of loadComponent, one record per call
    nLoads,            \* how many calls of loadComponent were made
    content,           \* container -> what its innerHTML holds
    head,              \* the elements appended to document.head, in order
    componentCache,    \* this.componentCache: path -> html text or "absent"
    loadedComponents,  \* this.loadedComponents: a set of component ids
    \* ---- button decorators
    ripples,           \* button -> its ripple spans (attached, or awaited by a timer)
    auroraLoops,       \* button -> the hue loops with a frame request pending
    animationId,       \* button -> the loop whose pending request animationId names
    \* ---- cookie consent
    cookie,            \* the 112energie_consent cookie: its value and days to live
    banner,            \* the .cookie-banner element of the current page
    localAccepted,     \* localStorage has cookiesAccepted (legacy script)
    legacyBanner,      \* #cookieBanner of the current legacy page, and its timer
    acceptAge,         \* history: days since the last accept(), -1 if never
    rejectedSince,     \* history: reject() was called after the last accept()
    \* ---- energy calculators: two calculator objects, X and Y, each on its page
    calcMem,           \* calculator -> what it last computed (this.results, the
                       \* monthlyAmount text): the state a calculation could read
    calcPaired,        \* the implementation both just ran on one input, or "none"
    pairNamed,         \* that input was: household 2, row-house, no green, no solar
    \* ---- the particle wave of the hero canvas (class ParticleWave)
    wave,              \* the ParticleWave object and its frame loop
    waveParticles,     \* this.particles
    mouse,             \* <<this.mouseX, this.mouseY>>, in px
    innerWidth,        \* window.innerWidth
    resizePending,     \* the debounced resize handler has a timer running
    \* ---- the rising particles of class EnergyApp (112energie.js)
    app,               \* the EnergyApp object, the page's visibility, the container
    appParticles,      \* this.particles
    stats,             \* this.stats, the stats interval and the field statsInterval
    \* ---- the ambient particles of a [data-particles] button (ButtonSystem)
    pcanvas,           \* the button's .particle-canvas and its frame loop
    pcParticles,       \* the particles array of initParticles
    \* ---- the navigation handlers of ComponentManager and a page that may
    \*      lack their elements
    nav,               \* which elements the page has, their 'active' classes,
                       \* and whether a handler threw or a promise was rejected
    \* ---- the live energy monitor (class EnergyMonitor) and the forms of
    \*      class FormHandler
    monitor,           \* the EnergyMonitor object, its socket and reconnect timers
    form,              \* a form's submit events and the timers of handleSubmit
    \* ---- the service worker (sw.js)
    worker,            \* the worker's lifecycle state and the last fetch it answered
    cacheStorage,      \* the cache CACHE_NAME: url -> the version stored, 0 if none
    site,              \* the server: the deployed version and whether it answers
    \* ---- the hero subtitle and its typewriter (class HeroController)
    hero,              \* the page of the current tab and the typewriter's progress
    subtitle,          \* the child nodes of the .subtitle element
    sessionStorage,    \* the session has the key hero-typewriter-shown
    \* ---- a debounced handler (Utils.debounce, EnergyApp.debounce, handleResize)
    debounced,         \* the wrapper's closure, its timers and what func received
    \* ---- a throttled handler (Utils.throttle, throttle of script.js)
    throttled,         \* the wrapper's closure, its timers and the runs of func
    \* the energy calculator's step wizard (currentCalcStep, calc-step classes)
    steps,
    \* ---- the energy monitors' chart buffers (EnergyMonitor.data)
    chart              \* usage, production, timestamps; the older monitor's data

loaderVars == <<loads, nLoads, content, head, componentCache, loadedComponents>>

buttonVars == <<ripples, auroraLoops, animationId>>

cookieVars == <<cookie, banner, localAccepted, legacyBanner, acceptAge,
                rejectedSince>>

calcVars == <<calcMem, calcPaired, pairNamed>>

waveVars == <<wave, waveParticles, mouse, innerWidth, resizePending>>

appVars == <<app, appParticles, stats>>

canvasVars == <<pcanvas, pcParticles>>

navVars == <<nav>>

monitorVars == <<monitor, form>>

workerVars == <<worker, cacheStorage, site>>

heroVars == <<hero, subtitle, sessionStorage>>

debounceVars == <<debounced>>

throttleVars == <<throttled>>

stepVars == <<steps>>

chartVars == <<chart>>

vars == <<loaderVars, buttonVars, cookieVars, calcVars, waveVars, appVars,
          canvasVars, navVars, monitorVars, workerVars, heroVars,
          debounceVars, throttleVars, stepVars, chartVars>>

\* what the actions of one subsystem leave alone
notLoaderVars == <<buttonVars, cookieVars, calcVars, waveVars, appVars,
                   canvasVars, navVars, monitorVars, workerVars, heroVars,
                   debounceVars, throttleVars, stepVars, chartVars>>
notButtonVars == <<loaderVars, cookieVars, calcVars, waveVars, appVars,
                   canvasVars, navVars, monitorVars, workerVars, heroVars,
                   debounceVars, throttleVars, stepVars, chartVars>>
notCookieVars == <<loaderVars, buttonVars, calcVars, waveVars, appVars,
                   canvasVars, navVars, monitorVars, workerVars, heroVars,
                   debounceVars, throttleVars, stepVars, chartVars>>
notCalcVars == <<loaderVars, buttonVars, cookieVars, waveVars, appVars,
                 canvasVars, navVars, monitorVars, workerVars, heroVars,
                 debounceVars, throttleVars, stepVars, chartVars>>
notWaveVars == <<loaderVars, buttonVars, cookieVars, calcVars, appVars,
                 canvasVars, navVars, monitorVars, workerVars, heroVars,
                 debounceVars, throttleVars, stepVars, chartVars>>
notAppVars == <<loaderVars, buttonVars, cookieVars, calcVars, waveVars,
                canvasVars, navVars, monitorVars, workerVars, heroVars,
                debounceVars, throttleVars, stepVars, chartVars>>
notCanvasVars == <<loaderVars, buttonVars, cookieVars, calcVars, waveVars,
                   appVars, navVars, monitorVars, workerVars, heroVars,
                   debounceVars, throttleVars, stepVars, chartVars>>
notNavVars == <<loaderVars, buttonVars, cookieVars, calcVars, waveVars,
                appVars, canvasVars, monitorVars, workerVars, heroVars,
                debounceVars, throttleVars, stepVars, chartVars>>
notMonitorVars == <<loaderVars, buttonVars, cookieVars, calcVars, waveVars,
                    appVars, canvasVars, navVars, workerVars, heroVars,
                    debounceVars, throttleVars, stepVars, chartVars>>
notWorkerVars == <<loaderVars, buttonVars, cookieVars, calcVars, waveVars,
                   appVars, canvasVars, navVars, monitorVars, heroVars,
                   debounceVars, throttleVars, stepVars, chartVars>>
notHeroVars == <<loaderVars, buttonVars, cookieVars, calcVars, waveVars,
                 appVars, canvasVars, navVars, monitorVars, workerVars,
                 debounceVars, throttleVars, stepVars, chartVars>>
notDebounceVars == <<loaderVars, buttonVars, cookieVars, calcVars, waveVars,
                     appVars, canvasVars, navVars, monitorVars, workerVars,
                     heroVars, throttleVars, stepVars, chartVars>>
notThrottleVars == <<loaderVars, buttonVars, cookieVars, calcVars, waveVars,
                     appVars, canvasVars, navVars, monitorVars, workerVars,
                     heroVars, debounceVars, stepVars, chartVars>>
notStepVars == <<loaderVars, buttonVars, cookieVars, calcVars, waveVars,
                 appVars, canvasVars, navVars, monitorVars, workerVars,
                 heroVars, debounceVars, throttleVars, chartVars>>
notChartVars == <<loaderVars, buttonVars, cookieVars, calcVars, waveVars,
                  appVars, canvasVars, navVars, monitorVars, workerVars,
                  heroVars, debounceVars, throttleVars, stepVars>>

(***************************************************************************)
(* Strings are sequences of characters, so that String.prototype.includes  *)
(* and string concatenation are computed, not assumed.                     *)
(***************************************************************************)
Includes(s, t) ==
    \E i \in 0..(Len(s) - Len(t)) : SubSeq(s, i + 1, i + Len(t)) = t

\* ---- bounds of the model
MaxLoads == 2
\* ripple spans of one button that exist at a time (attached or awaited)
MaxRipples == 2
\* aurora loops of one button that run at a time
MaxAuroraLoops == 2
\* clock ticks in one ripple delay
TicksPerDelay == 3

\* ---- the page: two placeholder containers
\*   c1 is <h id="h">      (found by "#h" and by the tag selector "h")
\*   c2 is <d class="x">   (no id: found by ".x")
Containers == {"c1", "c2"}
ElemTag == [c1 |-> <<"h">>, c2 |-> <<"d">>]
ElemId == [c1 |-> <<"h">>, c2 |-> <<>>]
ElemClass == [c1 |-> <<>>, c2 |-> <<"x">>]
Selectors == {<<"#", "h">>, <<"h">>, <<".", "x">>}

\* document.querySelector(selector) for the selectors above
QuerySelector(sel) ==
    LET m == {c \in Containers :
                \/ Head(sel) = "#" /\ ElemId[c] # <<>> /\ ElemId[c] = Tail(sel)
                \/ Head(sel) = "." /\ ElemClass[c] # <<>> /\ ElemClass[c] = Tail(sel)
                \/ Head(sel) \notin {"#", "."} /\ ElemTag[c] = sel}
    IN IF m = {} THEN "null" ELSE CHOOSE c \in m : TRUE

\* ---- the fragments the server holds
Paths == {<<"p">>, <<"q">>}
Htmls == {"H1", "H2"}
\* A URL as written in an attribute: relative to the page or absolute.
RelUrl(f) == [abs |-> FALSE, file |-> f]
AbsUrl(f) == [abs |-> TRUE, file |-> f]
\* element.src / element.href: the attribute resolved against the page URL
Resolve(u) == [abs |-> TRUE, file |-> u.file]
\* H1 references its script and stylesheet relatively, H2 absolutely.
FragScripts(h) ==
    IF h = "H1" THEN <<RelUrl("a.js")>>
    ELSE IF h = "H2" THEN <<AbsUrl("a.js")>>
    ELSE <<>>
FragLinks(h) ==
    IF h = "H1" THEN <<RelUrl("a.css")>>
    ELSE IF h = "H2" THEN <<AbsUrl("a.css")>>
    ELSE <<>>
\* The bodies a fetch of a path may return (the file can change on the server).
ServerBodies(p) == IF p = <<"p">> THEN {"H1", "H2"} ELSE {"H2"}

\* Math.random() of the l-th call, as the characters of "0.<digit>"
RandDigits == <<"1", "2", "3", "4", "5", "6", "7", "8", "9">>
MathRandom(l) == <<"0", ".", RandDigits[l]>>

\* `${componentPath}-${container.id || Math.random()}`
ComponentId(path, c, l) ==
    path \o <<"-">> \o (IF ElemId[c] # <<>> THEN ElemId[c] ELSE MathRandom(l))

\* cached: this call has put the text it fetched into componentCache
IdleLoad ==
    [pc |-> "idle", container |-> "null", path |-> <<>>, todo |-> <<>>,
     outcome |-> "none", promise |-> "none", injected |-> FALSE,
     dispatched |-> 0, cached |-> FALSE]

LoaderInit ==
    /\ loads = [l \in 1..MaxLoads |-> IdleLoad]
    /\ nLoads = 0
    /\ content = [c \in Containers |-> "empty"]
    /\ head = <<>>
    /\ componentCache = [p \in Paths |-> "absent"]
    /\ loadedComponents = {}

(***************************************************************************)
(* ComponentManager                                                        *)
(***************************************************************************)
\* document.querySelector(`script[src="${src}"]`): an attribute selector
\* compares the attribute as written, in the head and in every container.
DocHasScript(u, hd, cont) ==
    \/ \E i \in 1..Len(hd) : hd[i].tag = "script" /\ hd[i].url = u
    \/ \E c \in Containers :
         /\ cont[c] \in Htmls
         /\ \E j \in 1..Len(FragScripts(cont[c])) : FragScripts(cont[c])[j] = u

\* document.querySelector(`link[href="${href}"]`)
DocHasLink(u, hd, cont) ==
    \/ \E i \in 1..Len(hd) : hd[i].tag = "link" /\ hd[i].url = u
    \/ \E c \in Containers :
         /\ cont[c] \in Htmls
         /\ \E j \in 1..Len(FragLinks(cont[c])) : FragLinks(cont[c])[j] = u

ShowLoadingState(cont, c) == [cont EXCEPT ![c] = "loading"]

\* (mutant) the error block is never written
ShowErrorState_Skipped(cont, c) == cont

ShowErrorState(cont, c) == [cont EXCEPT ![c] = "error"]

\* loadExternalScript(scriptElement.src), up to the point where it waits:
\* the script is already in the document (resolved at once), or a new
\* script element with the resolved src is appended and its load awaited.
\* With no script left, initializeComponentScripts returns.
StartNextScript(todo, hd, cont) ==
    IF todo = <<>> THEN [pc |-> "finish", head |-> hd]
    ELSE IF DocHasScript(Resolve(Head(todo)), hd, cont)
         THEN [pc |-> "scriptnext", head |-> hd]
         ELSE [pc |-> "scriptload",
               head |-> Append(hd, [tag |-> "script", url |-> Resolve(Head(todo))])]

\* initializeComponentStyles: every stylesheet link of the container whose
\* resolved href no link[href=...] of the document matches is cloned (the
\* attribute as written) into the head.
RECURSIVE AppendLinks(_, _, _)
AppendLinks(links, hd, cont) ==
    IF links = <<>> THEN hd
    ELSE AppendLinks(Tail(links),
                     IF DocHasLink(Resolve(Head(links)), hd, cont)
                     THEN hd
                     ELSE Append(hd, [tag |-> "link", url |-> Head(links)]),
                     cont)

InitializeComponentStyles(c, hd, cont) ==
    AppendLinks(IF cont[c] \in Htmls THEN FragLinks(cont[c]) ELSE <<>>, hd, cont)

\* A call that has returned: its promise is settled and it holds no reference
\* to its container any more.
Settled(ld, outcome) ==
    [ld EXCEPT !.pc = "done", !.outcome = outcome, !.promise = "resolved",
               !.container = "null", !.path = <<>>, !.todo = <<>>]

\* container.dispatchEvent(new CustomEvent('componentLoaded', ...))
DispatchLoaded(ld) == [ld EXCEPT !.dispatched = @ + 1]

\* (mutant) the notification is dispatched from the catch block as well
CatchLoad_Dispatches(ld) == Settled(DispatchLoaded(ld), "error")

\* The catch block of loadComponent: error state shown, the promise resolves.
CatchLoad(ld) == Settled(ld, "error")

\* container.innerHTML = html; await this.initializeComponentScripts(container)
Inject(l, ld, h, cont) ==
    LET cont1 == [cont EXCEPT ![ld.container] = h]
        r == StartNextScript(FragScripts(h), head, cont1)
    IN /\ content' = cont1
       /\ head' = r.head
       /\ loads' = [loads EXCEPT ![l] =
              [ld EXCEPT !.injected = TRUE, !.todo = FragScripts(h),
                         !.pc = r.pc]]

\* loadComponent(container, componentPath, options) up to its first await.
\* cont0 and loaded0 are the DOM and loadedComponents it starts from.
LoadComponent(l, c, path, sl, cont0, loaded0) ==
    LET cid == ComponentId(path, c, l)
        ld == [IdleLoad EXCEPT !.container = c, !.path = path,
                               !.promise = "pending"]
        cont1 == IF sl THEN ShowLoadingState(cont0, c) ELSE cont0
    IN /\ nLoads' = l
       /\ loadedComponents' = loaded0
       /\ UNCHANGED componentCache
       /\ IF cid \in loaded0
          THEN /\ loads' = [loads EXCEPT ![l] = Settled(ld, "skipped")]
               /\ content' = cont0
               /\ UNCHANGED head
          ELSE IF componentCache[path] # "absent"
          THEN Inject(l, ld, componentCache[path], cont1)
          ELSE /\ loads' = [loads EXCEPT ![l] = [ld EXCEPT !.pc = "fetching"]]
               /\ content' = cont1
               /\ UNCHANGED head

\* load(selector, componentPath, options)
Load(sel, path, sl) ==
    /\ UNCHANGED notLoaderVars
    /\ nLoads < MaxLoads
    /\ QuerySelector(sel) # "null"
    /\ LoadComponent(nLoads + 1, QuerySelector(sel), path, sl,
                     content, loadedComponents)

\* unload(selector): the DOM and loadedComponents it leaves
UnloadContent(sel, cont) ==
    IF QuerySelector(sel) # "null"
    THEN [cont EXCEPT ![QuerySelector(sel)] = "empty"]
    ELSE cont

UnloadLoaded(sel, loaded) ==
    IF QuerySelector(sel) # "null"
    THEN {id \in loaded : ~Includes(id, sel)}
    ELSE loaded

Unload(sel) ==
    /\ UNCHANGED notLoaderVars
    /\ content' = UnloadContent(sel, content)
    /\ loadedComponents' = UnloadLoaded(sel, loadedComponents)
    /\ UNCHANGED <<loads, nLoads, head, componentCache>>

\* reload(selector, componentPath, options): unload, then load
Reload(sel, path, sl) ==
    /\ UNCHANGED notLoaderVars
    /\ nLoads < MaxLoads
    /\ QuerySelector(sel) # "null"
    /\ LoadComponent(nLoads + 1, QuerySelector(sel), path, sl,
                     UnloadContent(sel, content),
                     UnloadLoaded(sel, loadedComponents))

\* fetch(componentPath) resolves with a response
FetchResponse(l, ok) ==
    /\ UNCHANGED notLoaderVars
    /\ loads[l].pc = "fetching"
    /\ IF ok
       THEN /\ loads' = [loads EXCEPT ![l].pc = "text"]
            /\ UNCHANGED content
       ELSE /\ loads' = [loads EXCEPT ![l] = CatchLoad(@)]
            /\ content' = ShowErrorState(content, loads[l].container)
    /\ UNCHANGED <<nLoads, head, componentCache, loadedComponents>>

\* fetch(componentPath) or response.text() rejects (network failure)
FetchReject(l) ==
    /\ UNCHANGED notLoaderVars
    /\ loads[l].pc \in {"fetching", "text"}
    /\ loads' = [loads EXCEPT ![l] = CatchLoad(@)]
    /\ content' = ShowErrorState(content, loads[l].container)
    /\ UNCHANGED <<nLoads, head, componentCache, loadedComponents>>

\* response.text() resolves: the text is cached and injected
TextResolve(l, body) ==
    /\ UNCHANGED notLoaderVars
    /\ loads[l].pc = "text"
    /\ body \in ServerBodies(loads[l].path)
    /\ componentCache' = [componentCache EXCEPT ![loads[l].path] = body]
    /\ Inject(l, [loads[l] EXCEPT !.cached = TRUE], body, content)
    /\ UNCHANGED <<nLoads, loadedComponents>>

\* an awaited loadExternalScript promise resolves (at once, or by onload):
\* the loop goes on to the next script
ScriptResolve(l) ==
    /\ UNCHANGED notLoaderVars
    /\ loads[l].pc \in {"scriptnext", "scriptload"}
    /\ LET r == StartNextScript(Tail(loads[l].todo), head, content)
       IN /\ loads' = [loads EXCEPT ![l].todo = Tail(@), ![l].pc = r.pc]
          /\ head' = r.head
    /\ UNCHANGED <<nLoads, content, componentCache, loadedComponents>>

\* script.onerror: the promise rejects and loadComponent's catch runs
ScriptReject(l) ==
    /\ UNCHANGED notLoaderVars
    /\ loads[l].pc = "scriptload"
    /\ loads' = [loads EXCEPT ![l] = CatchLoad(@)]
    /\ content' = ShowErrorState(content, loads[l].container)
    /\ UNCHANGED <<nLoads, head, componentCache, loadedComponents>>

\* after the scripts: styles, loadedComponents.add, dispatchEvent
FinishLoad(l) ==
    /\ UNCHANGED notLoaderVars
    /\ loads[l].pc = "finish"
    /\ head' = InitializeComponentStyles(loads[l].container, head, content)
    /\ loadedComponents' = loadedComponents
           \cup {ComponentId(loads[l].path, loads[l].container, l)}
    /\ loads' = [loads EXCEPT ![l] =
           Settled(DispatchLoaded(@), "loaded")]
    /\ UNCHANGED <<nLoads, content, componentCache>>

\* clearCache(componentPath)
ClearCache(p) ==
    /\ UNCHANGED notLoaderVars
    /\ componentCache' = [componentCache EXCEPT ![p] = "absent"]
    /\ UNCHANGED <<loads, nLoads, content, head, loadedComponents>>

\* clearCache()
ClearCacheAll ==
    /\ UNCHANGED notLoaderVars
    /\ componentCache' = [p \in Paths |-> "absent"]
    /\ UNCHANGED <<loads, nLoads, content, head, loadedComponents>>

\* destroy()
Destroy ==
    /\ UNCHANGED notLoaderVars
    /\ componentCache' = [p \in Paths |-> "absent"]
    /\ loadedComponents' = {}
    /\ UNCHANGED <<loads, nLoads, content, head>>

LoaderNext ==
    \/ \E sel \in Selectors, p \in Paths, sl \in BOOLEAN : Load(sel, p, sl)
    \/ \E sel \in Selectors, p \in Paths, sl \in BOOLEAN : Reload(sel, p, sl)
    \/ \E sel \in Selectors : Unload(sel)
    \/ \E l \in 1..MaxLoads, ok \in BOOLEAN : FetchResponse(l, ok)
    \/ \E l \in 1..MaxLoads : FetchReject(l)
    \/ \E l \in 1..MaxLoads, b \in Htmls : TextResolve(l, b)
    \/ \E l \in 1..MaxLoads : ScriptResolve(l)
    \/ \E l \in 1..MaxLoads : ScriptReject(l)
    \/ \E l \in 1..MaxLoads : FinishLoad(l)
    \/ \E p \in Paths : ClearCache(p)
    \/ ClearCacheAll
    \/ Destroy


(***************************************************************************)
(* Button decorators: the ripple of ButtonController (buttons.js) and of   *)
(* ButtonSystem (script.js), and ButtonSystem's aurora hue loop.           *)
(* Time advances in ticks of TickMs; a timer fires when its delay has      *)
(* passed, and time does not advance past a timer that is due.             *)
(***************************************************************************)
\* setTimeout(..., 600) of both ripple implementations
RippleDelay == 600
TickMs == RippleDelay \div TicksPerDelay

\* "ctl":   a button of ButtonController
\* "ctlNo": a button of ButtonController carrying data-no-ripple
\* "sys":   a [data-ripple] button of ButtonSystem
RippleButtons == {"ctl", "ctlNo", "sys"}
HasNoRippleAttr(b) == b = "ctlNo"
\* the buttons a click decorates with a ripple
Decorated == {b \in RippleButtons : ~HasNoRippleAttr(b)}

\* "aur":     a [data-aurora] button with an .aurora-bg child
\* "aurNoBg": a [data-aurora] button without one
AuroraButtons == {"aur", "aurNoBg"}
HasAuroraBg(b) == b = "aur"

ButtonInit ==
    /\ ripples = [b \in RippleButtons |-> <<>>]
    /\ auroraLoops = [b \in AuroraButtons |-> {}]
    /\ animationId = [b \in AuroraButtons |-> 0]

\* document.createElement('span') with its removal timer set
NewRipple == [age |-> 0, attached |-> TRUE, timer |-> TRUE]

\* button.querySelector('.ripple-effect'): the first attached ripple, or 0
FirstAttached(rs) ==
    IF \E i \in 1..Len(rs) : rs[i].attached
    THEN CHOOSE i \in 1..Len(rs) :
            rs[i].attached /\ \A j \in 1..(i - 1) : ~rs[j].attached
    ELSE 0

\* (mutant) the removal timer is never set
CreateRipple_NoTimer(b, rs) ==
    IF HasNoRippleAttr(b) THEN rs
    ELSE Append(rs, [NewRipple EXCEPT !.timer = FALSE])

\* ButtonController.createRipple(event, element)
CreateRipple(b, rs) ==
    IF HasNoRippleAttr(b) THEN rs
    ELSE LET i == FirstAttached(rs)
             rs1 == IF i = 0 THEN rs ELSE [rs EXCEPT ![i].attached = FALSE]
         IN Append(rs1, NewRipple)

\* the click listener of ButtonSystem.initRipples
InitRipplesClick(b, rs) == Append(rs, NewRipple)

\* a click on a button
Click(b) ==
    /\ UNCHANGED notButtonVars
    /\ Len(ripples[b]) < MaxRipples
    /\ ripples' = [ripples EXCEPT ![b] =
           IF b = "sys" THEN InitRipplesClick(b, @) ELSE CreateRipple(b, @)]
    /\ UNCHANGED <<auroraLoops, animationId>>

TimerDue(r) == r.timer /\ r.age >= RippleDelay

\* rs without its i-th element
RemoveAt(rs, i) == SubSeq(rs, 1, i - 1) \o SubSeq(rs, i + 1, Len(rs))

\* the setTimeout callback of the i-th ripple of b: the span is removed
\* (ButtonController: if it still has a parent) and nothing refers to it
\* any more
RippleTimeout(b, i) ==
    /\ UNCHANGED notButtonVars
    /\ i \in 1..Len(ripples[b])
    /\ TimerDue(ripples[b][i])
    /\ ripples' = [ripples EXCEPT ![b] = RemoveAt(@, i)]
    /\ UNCHANGED <<auroraLoops, animationId>>

\* TickMs pass
Tick ==
    /\ UNCHANGED notButtonVars
    /\ \A b \in RippleButtons : \A i \in 1..Len(ripples[b]) : ~TimerDue(ripples[b][i])
    /\ \E b \in RippleButtons : ripples[b] # <<>>
    /\ ripples' = [b \in RippleButtons |->
                     [i \in 1..Len(ripples[b]) |->
                        [ripples[b][i] EXCEPT !.age = @ + TickMs]]]
    /\ UNCHANGED <<auroraLoops, animationId>>

\* the lowest loop number not in use
FreeLoop(ls) == CHOOSE k \in 1..MaxAuroraLoops :
                    k \notin ls /\ \A j \in 1..(k - 1) : j \in ls

\* mouseenter on a [data-aurora] button: without .aurora-bg nothing happens;
\* otherwise animateAurora() runs once and requests its next frame
AuroraMouseEnter(b) ==
    /\ UNCHANGED notButtonVars
    /\ IF ~HasAuroraBg(b)
       THEN UNCHANGED <<auroraLoops, animationId>>
       ELSE /\ Cardinality(auroraLoops[b]) < MaxAuroraLoops
            /\ auroraLoops' = [auroraLoops EXCEPT ![b] = @ \cup {FreeLoop(@)}]
            /\ animationId' = [animationId EXCEPT ![b] = FreeLoop(auroraLoops[b])]
    /\ UNCHANGED ripples

\* the frame callback of loop k: animateAurora() requests the next frame
AuroraFrame(b, k) ==
    /\ UNCHANGED notButtonVars
    /\ k \in auroraLoops[b]
    /\ animationId' = [animationId EXCEPT ![b] = k]
    /\ UNCHANGED <<ripples, auroraLoops>>

\* mouseleave: cancelAnimationFrame(animationId)
AuroraMouseLeave(b) ==
    /\ UNCHANGED notButtonVars
    /\ auroraLoops' = [auroraLoops EXCEPT ![b] = @ \ {animationId[b]}]
    /\ animationId' = [animationId EXCEPT ![b] = 0]
    /\ UNCHANGED ripples

ButtonNext ==
    \/ \E b \in RippleButtons : Click(b)
    \/ \E b \in RippleButtons, i \in 1..MaxRipples : RippleTimeout(b, i)
    \/ Tick
    \/ \E b \in AuroraButtons : AuroraMouseEnter(b)
    \/ \E b \in AuroraButtons, k \in 1..MaxAuroraLoops : AuroraFrame(b, k)
    \/ \E b \in AuroraButtons : AuroraMouseLeave(b)

(***************************************************************************)
(* Claims about the button decorators (checked under SpecButtons)          *)
(***************************************************************************)
AttachedRipples(b) == {i \in 1..Len(ripples[b]) : ripples[b][i].attached}

C8_OneDecoratorPerKind ==
    /\ \A b \in RippleButtons : Cardinality(AttachedRipples(b)) <= 1
    /\ \A b \in AuroraButtons : Cardinality(auroraLoops[b]) <= 1


(***************************************************************************)
(* Cookie consent: class CookieConsent (a cookie that expires) and the     *)
(* legacy initializeCookies / acceptCookies (a localStorage flag).         *)
(* Time is counted in days; the browser drops a cookie when its expiry     *)
(* date is reached.                                                        *)
(***************************************************************************)
\* this.cookieExpiry = 365 (days)
CookieExpiry == 365

NoCookie == [value |-> "none", ttl |-> 0]

CookieInit ==
    /\ cookie = NoCookie
    /\ banner = "none"
    /\ localAccepted = FALSE
    /\ legacyBanner = "hidden"
    /\ acceptAge = -1
    /\ rejectedSince = FALSE

\* setCookie(value): `${cookieName}=${value};expires=<now + cookieExpiry days>`
SetCookie(value) == [value |-> value, ttl |-> CookieExpiry]

\* hasConsent(): document.cookie.includes(cookieName + '=true')
HasConsent(ck) == ck.value = "true"

\* hideBanner(): the banner, if there is one, loses 'show' and is removed
\* 300 ms later
HideBanner(bn) == IF bn = "none" THEN "none" ELSE "hiding"

\* a page load: new CookieConsent()
PageLoad ==
    /\ UNCHANGED notCookieVars
    /\ banner' = IF HasConsent(cookie) THEN "none" ELSE "shown"
    /\ UNCHANGED <<cookie, localAccepted, legacyBanner, acceptAge, rejectedSince>>

\* the "Accepteren" button of the banner: cookieConsent.accept()
Accept ==
    /\ UNCHANGED notCookieVars
    /\ banner # "none"
    /\ cookie' = SetCookie("true")
    /\ banner' = HideBanner(banner)
    /\ acceptAge' = 0
    /\ rejectedSince' = FALSE
    /\ UNCHANGED <<localAccepted, legacyBanner>>

\* the "Weigeren" button of the banner: cookieConsent.reject()
Reject ==
    /\ UNCHANGED notCookieVars
    /\ banner # "none"
    /\ cookie' = SetCookie("false")
    /\ banner' = HideBanner(banner)
    /\ rejectedSince' = TRUE
    /\ UNCHANGED <<localAccepted, legacyBanner, acceptAge>>

\* setTimeout(() => banner.remove(), 300)
BannerRemoved ==
    /\ UNCHANGED notCookieVars
    /\ banner = "hiding"
    /\ banner' = "none"
    /\ UNCHANGED <<cookie, localAccepted, legacyBanner, acceptAge, rejectedSince>>

\* a page load of the legacy script: initializeCookies()
LegacyPageLoad ==
    /\ UNCHANGED notCookieVars
    /\ legacyBanner' = IF localAccepted THEN "hidden" ELSE "pending"
    /\ UNCHANGED <<cookie, banner, localAccepted, acceptAge, rejectedSince>>

\* the 2000 ms timer of initializeCookies: the banner is displayed
LegacyBannerTimer ==
    /\ UNCHANGED notCookieVars
    /\ legacyBanner = "pending"
    /\ legacyBanner' = "shown"
    /\ UNCHANGED <<cookie, banner, localAccepted, acceptAge, rejectedSince>>

\* the accept button of the legacy banner: acceptCookies()
AcceptCookies ==
    /\ UNCHANGED notCookieVars
    /\ legacyBanner = "shown"
    /\ localAccepted' = TRUE
    /\ legacyBanner' = "hidden"
    /\ UNCHANGED <<cookie, banner, acceptAge, rejectedSince>>

\* a day passes: the cookie comes a day closer to its expiry and is dropped
\* when it reaches it
DayPasses ==
    /\ UNCHANGED notCookieVars
    /\ cookie.value # "none"
    /\ cookie' = IF cookie.ttl <= 1 THEN NoCookie
                 ELSE [cookie EXCEPT !.ttl = @ - 1]
    /\ acceptAge' = IF acceptAge = -1 \/ acceptAge >= CookieExpiry
                    THEN acceptAge ELSE acceptAge + 1
    /\ UNCHANGED <<banner, localAccepted, legacyBanner, rejectedSince>>

CookieNext ==
    \/ PageLoad
    \/ Accept
    \/ Reject
    \/ BannerRemoved
    \/ LegacyPageLoad
    \/ LegacyBannerTimer
    \/ AcceptCookies
    \/ DayPasses

(***************************************************************************)
(* Claims about cookie consent (checked under SpecCookie)                  *)
(***************************************************************************)
\* the user accepted less than cookieExpiry days ago
AcceptedInWindow == acceptAge >= 0 /\ acceptAge < CookieExpiry

\* C9: once the user has accepted, no page load within the
\* 365 days after it shows the banner; nor does any legacy page load once
\* acceptCookies has run.
C9_NoBannerAfterAccept ==
    [][/\ (PageLoad /\ AcceptedInWindow) => banner' = "none"
       /\ (LegacyPageLoad /\ localAccepted) => legacyBanner' = "hidden"]_vars

\* C9 where the accept still stands: the same, as long as no reject() has
\* overwritten the accepted flag since the accept.
C9_NoBannerWhileAcceptedFlagStands ==
    [][/\ (PageLoad /\ AcceptedInWindow /\ ~rejectedSince) => banner' = "none"
       /\ (LegacyPageLoad /\ localAccepted) => legacyBanner' = "hidden"]_vars

(***************************************************************************)
(* Energy calculators.  Three implementations:                             *)
(*   "A"  class EnergyCalculator of 112energie-critical components.js      *)
(*   "B"  class EnergyCalculator of scripts/components.js                  *)
(*   "C"  function calculateEnergyCosts of 112energie-critical             *)
(* Amounts are computed exactly, as integer numerators over the common     *)
(* denominator of the rates, and rounded as Math.round rounds.             *)
(***************************************************************************)
\* Math.round(n / d) for n >= 0, d > 0
Round(n, d) == (2 * n + d) \div (2 * d)

\* what a calculation on an unknown home type yields (NaN)
NaN == -1

\* the values the form fields take in the model
HouseholdSizes == {2, 4}
HomeTypes == {"row-house", "detached", "villa"}

\* ---- implementation A
\* this.consumption[householdSize]
ConsumptionA(hs) ==
    IF hs = 1 THEN [power |-> 1800, gas |-> 800]
    ELSE IF hs = 2 THEN [power |-> 2800, gas |-> 1200]
    ELSE IF hs = 3 THEN [power |-> 3500, gas |-> 1400]
    ELSE IF hs = 4 THEN [power |-> 4200, gas |-> 1600]
    ELSE [power |-> 5000, gas |-> 1800]

\* this.homeTypeMultiplier[homeType], times 10; 0 where the table has no entry
HomeTypeMultiplierA(t) ==
    IF t = "apartment" THEN 8
    ELSE IF t = "row-house" THEN 10
    ELSE IF t = "corner-house" THEN 11
    ELSE IF t = "detached" THEN 13
    ELSE 0

\* EnergyCalculator.calculate().monthly: rates 0.45 and 1.50, solar discount 0.15
MonthlyA(in) ==
    IF HomeTypeMultiplierA(in.homeType) = 0 THEN NaN
    ELSE LET m == HomeTypeMultiplierA(in.homeType)
             electricityCost == ConsumptionA(in.householdSize).power * m * 45
                                * (IF in.solarPanels THEN 85 ELSE 100)
             gasCost == ConsumptionA(in.householdSize).gas * m * 150 * 100
         IN Round(electricityCost + gasCost, 100000 * 12)

\* ---- implementation B
\* homeMultipliers[homeType] || 1.0 of estimateUsage, times 10
HomeMultiplierB(t) ==
    IF t = "apartment" THEN 6
    ELSE IF t = "row-house" THEN 10
    ELSE IF t = "corner-house" THEN 11
    ELSE IF t = "semi-detached" THEN 12
    ELSE IF t = "detached" THEN 14
    ELSE IF t = "villa" THEN 16
    ELSE 10

\* estimateUsage(): the values it writes into #electricityUsage and #gasUsage
EstimateUsage(hs, t) ==
    [electricityUsage |-> Round(2800 * (hs + 2) * HomeMultiplierB(t), 40),
     gasUsage |-> Round(1200 * (hs + 2) * HomeMultiplierB(t), 40)]

\* EnergyCalculator.calculate().monthlyAmount: rates 0.24 / 0.28 and 1.45,
\* solar factor 0.3, network costs 456, AI discount 8%
MonthlyB(in) ==
    LET electricityCost == in.electricityUsage * (IF in.greenEnergy THEN 24 ELSE 28)
                           * (IF in.solarPanels THEN 3 ELSE 10)
        gasCost == in.gasUsage * 145 * 10
        aiDiscount == IF in.smartMeter THEN (electricityCost + gasCost) * 8 ELSE 0
        totalYearly == (electricityCost + gasCost) * 100 + 456 * 100000 - aiDiscount
    IN Round(totalYearly, 100000 * 12)

\* ---- implementation C
\* homeMultipliers[homeType] of calculateEnergyCosts, times 10; 0 if missing
HomeMultiplierC(t) ==
    IF t = "apartment" THEN 7
    ELSE IF t = "row-house" THEN 10
    ELSE IF t = "corner-house" THEN 12
    ELSE IF t = "semi-detached" THEN 13
    ELSE IF t = "detached" THEN 15
    ELSE IF t = "villa" THEN 20
    ELSE 0

\* calculateEnergyCosts(): Math.round(monthlyCost); rates 0.28 / 0.26 and 1.45,
\* solar factor 0.6
MonthlyC(in) ==
    IF HomeMultiplierC(in.homeType) = 0 THEN NaN
    ELSE LET m == HomeMultiplierC(in.homeType)
             electricityUsage == (2800 + (in.householdSize - 2) * 500) * m
                                 * (IF in.solarPanels THEN 6 ELSE 10)
             gasUsage == (1200 + (in.householdSize - 2) * 200) * m
             cost == electricityUsage * (IF in.greenEnergy THEN 28 ELSE 26)
                     + gasUsage * 145 * 10
         IN Round(cost, 10000 * 12)

\* ---- the form inputs each implementation reads
InputsA == [householdSize : HouseholdSizes, homeType : HomeTypes,
            solarPanels : BOOLEAN]
\* B reads the usage fields, which estimateUsage fills from size and type
InputsB ==
    {[electricityUsage |-> EstimateUsage(hs, t).electricityUsage,
      gasUsage |-> EstimateUsage(hs, t).gasUsage,
      greenEnergy |-> g, solarPanels |-> sp, smartMeter |-> sm] :
        hs \in HouseholdSizes, t \in HomeTypes, g \in BOOLEAN, sp \in BOOLEAN,
        sm \in BOOLEAN}
InputsC == [householdSize : HouseholdSizes, homeType : HomeTypes,
            greenEnergy : BOOLEAN, solarPanels : BOOLEAN]
Inputs(impl) == IF impl = "A" THEN InputsA
                ELSE IF impl = "B" THEN InputsB
                ELSE InputsC

\* household size 2, row-house, no green energy, no solar (no smart meter)
NamedInput(impl) ==
    IF impl = "A"
    THEN [householdSize |-> 2, homeType |-> "row-house", solarPanels |-> FALSE]
    ELSE IF impl = "B"
    THEN [electricityUsage |-> EstimateUsage(2, "row-house").electricityUsage,
          gasUsage |-> EstimateUsage(2, "row-house").gasUsage,
          greenEnergy |-> FALSE, solarPanels |-> FALSE, smartMeter |-> FALSE]
    ELSE [householdSize |-> 2, homeType |-> "row-house", greenEnergy |-> FALSE,
          solarPanels |-> FALSE]

Calculators == {"X", "Y"}
Impls == {"A", "B", "C"}

CalcInit ==
    /\ calcMem = [k \in Calculators |-> [impl |-> "none", monthly |-> 0]]
    /\ calcPaired = "none"
    /\ pairNamed = FALSE

\* (mutant) a result computed before by the same implementation is returned
\* again without looking at the inputs
Calculate_ReusesResult(impl, in, mem) ==
    IF mem.impl = impl THEN mem.monthly
    ELSE IF impl = "A" THEN MonthlyA(in)
    ELSE IF impl = "B" THEN MonthlyB(in)
    ELSE MonthlyC(in)

\* calculate() / calculateEnergyCosts() of a calculator whose state is mem:
\* the monthly amount it returns or displays
Calculate(impl, in, mem) ==
    IF impl = "A" THEN MonthlyA(in)
    ELSE IF impl = "B" THEN MonthlyB(in)
    ELSE MonthlyC(in)

\* one calculator runs a calculation
CalcSolo(k, impl, in) ==
    /\ UNCHANGED notCalcVars
    /\ calcMem' = [calcMem EXCEPT ![k] =
           [impl |-> impl, monthly |-> Calculate(impl, in, calcMem[k])]]
    /\ calcPaired' = "none"
    /\ pairNamed' = FALSE

\* both calculators run the same implementation on identical form inputs
CalcPair(impl, in) ==
    /\ UNCHANGED notCalcVars
    /\ calcMem' = [k \in Calculators |->
           [impl |-> impl, monthly |-> Calculate(impl, in, calcMem[k])]]
    /\ calcPaired' = impl
    /\ pairNamed' = (in = NamedInput(impl))

CalcNext ==
    \/ \E k \in Calculators, impl \in Impls : \E in \in Inputs(impl) :
          CalcSolo(k, impl, in)
    \/ \E impl \in Impls : \E in \in Inputs(impl) : CalcPair(impl, in)

NarrowCount == 3
WideCount == 4
MobileCount == 2
\* how many pointer events a behaviour has
MaxPointerMoves == 2

\* units per px: the precision of a coordinate
PxUnits == 4
\* window.innerWidth < 768
Breakpoint == 768
\* this.mouseRadius = 120, this.waveAmplitude = 80
MouseRadius == 120
WaveAmplitude == 80
\* window.innerHeight
InnerHeight == 600
\* the window widths of the model
Widths == {600, 1024}

Abs(n) == IF n < 0 THEN -n ELSE n
Min(a, b) == IF a < b THEN a ELSE b
\* n / d rounded to the nearest integer, halves away from zero (d > 0)
RoundDiv(n, d) == IF n >= 0 THEN (2 * n + d) \div (2 * d)
                  ELSE -((2 * (-n) + d) \div (2 * d))
\* Math.sqrt(n), rounded down: the root lies in lo..hi
RECURSIVE SqrtIn(_, _, _)
SqrtIn(n, lo, hi) ==
    IF lo = hi THEN lo
    ELSE LET mid == (lo + hi + 1) \div 2
         IN IF mid * mid <= n THEN SqrtIn(n, mid, hi) ELSE SqrtIn(n, lo, mid - 1)
ISqrt(n) == SqrtIn(n, 0, MouseRadius * PxUnits)

\* <<Math.sin(index * waveFrequency + time), Math.sin(time * speed + offset)>>
\* as sampled in one frame
SinSamples == {<<-1, -1>>, <<0, 0>>, <<1, 1>>}
\* the pointer positions of the model, in px relative to the canvas; a
\* pointer on the left edge has mouseX = 0
PointerPositions == {<<30, 340>>, <<0, 300>>, <<60, 380>>}

NoWave == [state |-> "none", ctx |-> FALSE, n |-> 0, width |-> 0, centerY |-> 0,
           isActive |-> FALSE, frame |-> FALSE, idleRequest |-> FALSE,
           thrown |-> FALSE, drew |-> FALSE, moves |-> 0]

WaveInit ==
    /\ wave = NoWave
    /\ waveParticles = <<>>
    /\ mouse = <<0, 0>>
    /\ innerWidth = 1024
    /\ resizePending = FALSE

\* resize(): canvas.width, canvas.height, centerY
Resize(w, iw) == [w EXCEPT !.width = iw, !.centerY = InnerHeight \div 2]

\* createParticles(): numberOfParticles records, spaced width / (n - 1)
\* apart; for n = 1 the spacing is Infinity and 0 * Infinity is NaN
CreateParticles(w) ==
    [i \in 1..w.n |->
        IF w.n = 1
        THEN [x |-> 0, originalX |-> 0, nan |-> TRUE,
              y |-> w.centerY * PxUnits, baseY |-> w.centerY * PxUnits]
        ELSE [x |-> RoundDiv((i - 1) * w.width * PxUnits, w.n - 1),
              originalX |-> RoundDiv((i - 1) * w.width * PxUnits, w.n - 1),
              nan |-> FALSE,
              y |-> w.centerY * PxUnits, baseY |-> w.centerY * PxUnits]]

\* if (this.mouseX && this.mouseY)
PointerPresent(m) == m[1] # 0 /\ m[2] # 0

\* particle.y after the base wave motion
WaveY(p, s) == p.baseY + s[1] * WaveAmplitude * PxUnits

\* dx, dy and the squared distance from the particle to the pointer
PointerDx(p, m) == m[1] * PxUnits - p.x
PointerDy(p, m, s) == m[2] * PxUnits - WaveY(p, s)
Dist2(p, m, s) == PointerDx(p, m) * PointerDx(p, m)
                  + PointerDy(p, m, s) * PointerDy(p, m, s)

\* distance < this.mouseRadius (false for a NaN distance)
InRadius(p, m, s) ==
    /\ PointerPresent(m)
    /\ ~p.nan
    /\ Dist2(p, m, s) < (MouseRadius * PxUnits) * (MouseRadius * PxUnits)

\* Math.cos(angle) * force (or Math.sin(angle) * force) for the component c
\* of the vector to the pointer, at distance d > 0:
\* force = (1 - distance / mouseRadius) * 40
PushOf(c, d) ==
    IF d = 0 THEN 0
    ELSE RoundDiv(c * 40 * PxUnits * (MouseRadius * PxUnits - d),
                  d * MouseRadius * PxUnits)

\* particle.x -= Math.cos(angle) * force * 0.5; atan2(0, 0) is 0
PushedX(p, m, s) ==
    LET d == ISqrt(Dist2(p, m, s))
    IN IF d = 0 THEN p.x - 20 * PxUnits
       ELSE p.x - RoundDiv(PushOf(PointerDx(p, m), d), 2)

\* particle.y -= Math.sin(angle) * force
PushedY(p, m, s) ==
    LET d == ISqrt(Dist2(p, m, s))
    IN WaveY(p, s) - PushOf(PointerDy(p, m, s), d)

\* (mutant) the particle does not return to its original position
Relax_Stays(x, originalX) == x

\* particle.x += (particle.originalX - particle.x) * 0.05
Relax(x, originalX) == x + RoundDiv((originalX - x) * 5, 100)

\* the body of the forEach of updateParticles for one particle
UpdateParticle(p, m, s) ==
    LET x1 == IF InRadius(p, m, s) THEN PushedX(p, m, s) ELSE p.x
        y1 == IF InRadius(p, m, s) THEN PushedY(p, m, s) ELSE WaveY(p, s)
    IN [p EXCEPT !.x = IF p.nan THEN p.x ELSE Relax(x1, p.originalX),
                 !.y = y1 + s[2] * PxUnits]

\* updateParticles()
UpdateParticles(w, ps, m, s) ==
    IF ~w.isActive THEN ps
    ELSE [i \in 1..Len(ps) |-> UpdateParticle(ps[i], m, s)]

\* drawParticles(): this.ctx.clearRect(...) throws on a null context
DrawParticles(w) ==
    IF ~w.isActive THEN w
    ELSE IF ~w.ctx THEN [w EXCEPT !.thrown = TRUE]
    ELSE [w EXCEPT !.drew = TRUE]

\* animate(): update, draw, requestAnimationFrame; an exception leaves it
\* before the request.  idleRequest records that the request was made by a
\* frame that found isActive false
Animate(w) ==
    LET w1 == DrawParticles(w)
    IN IF w1.thrown THEN [w1 EXCEPT !.frame = FALSE]
       ELSE [w1 EXCEPT !.frame = TRUE, !.idleRequest = ~w.isActive]

\* App112Energie.start() at page load: new ParticleWave() inside the try,
\* then initMobileEnhancements(), which lowers numberOfParticles on a touch
\* device when the wave was constructed
Start(canvasPresent, ctxOk, touch, s) ==
    /\ UNCHANGED notWaveVars
    /\ wave.state = "none"
    /\ LET w0 == [NoWave EXCEPT !.ctx = ctxOk, !.isActive = TRUE,
                      !.n = IF innerWidth < Breakpoint THEN NarrowCount
                            ELSE WideCount]
           w1 == Resize(w0, innerWidth)
           ps == UpdateParticles(w1, CreateParticles(w1), mouse, s)
           w2 == Animate(w1)
       IN IF ~canvasPresent
          THEN /\ wave' = [NoWave EXCEPT !.state = "inert"]
               /\ waveParticles' = <<>>
          ELSE /\ waveParticles' = ps
               /\ wave' = IF w2.thrown THEN [w2 EXCEPT !.state = "failed"]
                          ELSE [w2 EXCEPT !.state = "running",
                                   !.n = IF touch THEN Min(MobileCount, @) ELSE @]
    /\ UNCHANGED <<mouse, innerWidth, resizePending>>

\* the callback of requestAnimationFrame: animate()
WaveFrame(s) ==
    /\ UNCHANGED notWaveVars
    /\ wave.state = "running"
    /\ wave.frame
    /\ waveParticles' = UpdateParticles(wave, waveParticles, mouse, s)
    /\ wave' = Animate(wave)
    /\ UNCHANGED <<mouse, innerWidth, resizePending>>

\* mousemove / touchstart / touchmove on the canvas
MouseMove(m) ==
    /\ UNCHANGED notWaveVars
    /\ wave.state = "running"
    /\ wave.moves < MaxPointerMoves
    /\ m # mouse
    /\ mouse' = m
    /\ wave' = [wave EXCEPT !.moves = @ + 1]
    /\ UNCHANGED <<waveParticles, innerWidth, resizePending>>

\* mouseleave / touchend
MouseLeave ==
    /\ UNCHANGED notWaveVars
    /\ wave.state = "running"
    /\ mouse # <<0, 0>>
    /\ mouse' = <<0, 0>>
    /\ UNCHANGED <<wave, waveParticles, innerWidth, resizePending>>

\* the IntersectionObserver callback: this.isActive = entry.isIntersecting
Intersect(b) ==
    /\ UNCHANGED notWaveVars
    /\ wave.state = "running"
    /\ wave.isActive # b
    /\ wave' = [wave EXCEPT !.isActive = b]
    /\ UNCHANGED <<waveParticles, mouse, innerWidth, resizePending>>

\* destroy()
WaveDestroy ==
    /\ UNCHANGED notWaveVars
    /\ wave.state = "running"
    /\ wave.isActive
    /\ wave' = [wave EXCEPT !.isActive = FALSE]
    /\ UNCHANGED <<waveParticles, mouse, innerWidth, resizePending>>

\* the window is resized: the debounced handler (re)starts its 250 ms timer
WindowResize(iw) ==
    /\ UNCHANGED notWaveVars
    /\ iw # innerWidth
    /\ innerWidth' = iw
    /\ resizePending' = (wave.state = "running")
    /\ UNCHANGED <<wave, waveParticles, mouse>>

\* the debounce timer fires: resize(); createParticles()
ResizeTimer ==
    /\ UNCHANGED notWaveVars
    /\ resizePending
    /\ resizePending' = FALSE
    /\ wave' = Resize(wave, innerWidth)
    /\ waveParticles' = CreateParticles(Resize(wave, innerWidth))
    /\ UNCHANGED <<mouse, innerWidth>>

\* a caller assigns particleWave.numberOfParticles, as initMobileEnhancements
\* does
SetNumberOfParticles(n) ==
    /\ UNCHANGED notWaveVars
    /\ wave.state = "running"
    /\ n # wave.n
    /\ wave' = [wave EXCEPT !.n = n]
    /\ UNCHANGED <<waveParticles, mouse, innerWidth, resizePending>>

WaveNext ==
    \/ \E c \in BOOLEAN, x \in BOOLEAN, t \in BOOLEAN, s \in SinSamples :
          Start(c, x, t, s)
    \/ \E s \in SinSamples : WaveFrame(s)
    \/ \E b \in BOOLEAN : Intersect(b)
    \/ WaveDestroy
    \/ \E iw \in Widths : WindowResize(iw)
    \/ ResizeTimer
    \/ \E n \in 0..WideCount : SetNumberOfParticles(n)

\* the wave under the pointer: construction, frames and pointer events
WavePointerNext ==
    \/ \E c \in BOOLEAN, x \in BOOLEAN, t \in BOOLEAN, s \in SinSamples :
          Start(c, x, t, s)
    \/ \E s \in SinSamples : WaveFrame(s)
    \/ \E m \in PointerPositions : MouseMove(m)
    \/ MouseLeave


(***************************************************************************)
(* The rising particles of class EnergyApp (112energie.js): creation,      *)
(* the frame loop, the resize handler and the visibility handler.          *)
(* Coordinates are whole px; Math.random is sampled at its ends.           *)
(***************************************************************************)
\* this.maxParticles (50 in the source), scaled down
MaxParticles == 1

\* containerRect.width as the page is laid out wide and narrow, and
\* containerRect.height
ContainerWidths == {400, 200}
ContainerHeight == 10
\* if (particle.y < -50) particle.y = containerRect.height + 50
ResetBelow == 50

\* Math.random() * containerRect.width
RandomX(cw) == {0, cw - 1}
\* (Math.random() - 0.5) * 2 and -Math.random() * 2 - 1
RandomVx == {-1, 1}
RandomVy == {-2}

\* pending counts the frame requests of the particle loop not yet run or
\* cancelled; resumed: resumeAnimations() has been called
NoApp == [state |-> "none", container |-> FALSE, width |-> 0, hidden |-> FALSE,
          animationId |-> FALSE, frame |-> FALSE, resizeTimeout |-> FALSE,
          pending |-> 0, resumed |-> FALSE]

\* aiAccuracy is kept in thousandths of a percent
AccuracyUnits == 1000
\* updateStats steps of one behaviour
MaxUpdates == 2

\* this.stats of the constructor; interval: the timer of startStatsUpdate
\* runs; statsInterval: the field destroy() reads holds a timer id
NoStats == [activeNodes |-> 127439, energySaved |-> 3859,
            aiAccuracy |-> 997 * (AccuracyUnits \div 10),
            interval |-> FALSE, statsInterval |-> FALSE, updates |-> 0,
            clamped |-> FALSE, afterDestroy |-> FALSE]

AppInit ==
    /\ app = [NoApp EXCEPT !.width = 400]
    /\ appParticles = <<>>
    /\ stats = NoStats

\* the records createParticles() can push for a container cw wide:
\* y = containerRect.height + Math.random() * 100, sampled at 0
NewParticles(cw) ==
    [1..MaxParticles -> [x : RandomX(cw), y : {ContainerHeight},
                         vx : RandomVx, vy : RandomVy]]

\* startAnimations()
StartAnimations_Unguarded(a) ==
    [a EXCEPT !.animationId = TRUE, !.frame = TRUE, !.pending = @ + 1]

StartAnimations(a) ==
    IF a.animationId THEN a
    ELSE [a EXCEPT !.animationId = TRUE, !.frame = TRUE, !.pending = @ + 1]

\* pauseAnimations(): cancelAnimationFrame(this.animationId)
PauseAnimations(a) ==
    IF a.animationId
    THEN [a EXCEPT !.animationId = FALSE, !.frame = a.pending > 1,
                   !.pending = IF @ > 0 THEN @ - 1 ELSE 0]
    ELSE a

\* new EnergyApp() -> init(): initParticleSystem() (nothing without the
\* container or with reduced motion), setupEventListeners(), startAnimations()
AppStart(container, ps) ==
    /\ UNCHANGED notAppVars
    /\ app.state = "none"
    /\ appParticles' = IF container THEN ps ELSE <<>>
    /\ app' = StartAnimations([app EXCEPT !.state = "ready",
                                          !.container = container])
    /\ stats' = [stats EXCEPT !.interval = TRUE]

\* the forEach body of animateParticles for one particle; nx is the random
\* x of a reset
MoveParticle(p, cw, nx) ==
    LET y1 == p.y + p.vy
        x1 == p.x + p.vx
        y2 == IF y1 < -ResetBelow THEN ContainerHeight + ResetBelow ELSE y1
        x2 == IF y1 < -ResetBelow THEN nx ELSE x1
    IN [x |-> x2, y |-> y2,
        vx |-> IF x2 < 0 \/ x2 > cw THEN -p.vx ELSE p.vx,
        vy |-> p.vy]

\* the callback of requestAnimationFrame: animateParticles(); frames do not
\* run while the page is hidden
AppFrame(nx) ==
    /\ UNCHANGED notAppVars
    /\ app.frame
    /\ ~app.hidden
    /\ IF ~app.container \/ appParticles = <<>>
       THEN /\ app' = [app EXCEPT !.frame = app.pending > 1,
                                  !.pending = @ - 1]
            /\ UNCHANGED appParticles
       ELSE /\ appParticles' = [i \in 1..Len(appParticles) |->
                                   MoveParticle(appParticles[i], app.width, nx)]
            /\ app' = [app EXCEPT !.frame = app.animationId \/ app.pending > 1,
                                  !.pending = IF app.animationId THEN @
                                              ELSE @ - 1]
    /\ UNCHANGED stats

\* visibilitychange: handleVisibilityChange()
VisibilityChange ==
    /\ UNCHANGED notAppVars
    /\ app' = IF app.state # "ready" THEN [app EXCEPT !.hidden = ~@]
              ELSE IF ~app.hidden
              THEN [PauseAnimations(app) EXCEPT !.hidden = TRUE]
              ELSE [StartAnimations(app) EXCEPT !.hidden = FALSE,
                                                !.resumed = TRUE]
    /\ UNCHANGED <<appParticles, stats>>

\* the window is resized and the container with it: handleResize()
\* (re)starts its 250 ms timer
AppResize(cw) ==
    /\ UNCHANGED notAppVars
    /\ cw # app.width
    /\ app' = [app EXCEPT !.width = cw,
                          !.resizeTimeout = (app.state = "ready") \/ @]
    /\ UNCHANGED <<appParticles, stats>>

\* the timer of handleResize fires: onResize() -> recreateParticles()
AppResizeTimer(ps) ==
    /\ UNCHANGED notAppVars
    /\ app.resizeTimeout
    /\ app' = [app EXCEPT !.resizeTimeout = FALSE]
    /\ appParticles' = IF appParticles # <<>> THEN ps ELSE appParticles
    /\ UNCHANGED stats

Max(a, b) == IF a > b THEN a ELSE b

\* Math.random() in thousandths, and what is computed from it
Randoms == {0, 500, 999}
Floor(r, n) == (r * n) \div 1000

\* updateStats() without its bounds
UpdatedStats_NoBounds(s, r1, r2, r3) ==
    [s EXCEPT !.activeNodes = @ + Floor(r1, 100) - 50,
              !.energySaved = @ + Floor(r2, 50),
              !.aiAccuracy = 997 * (AccuracyUnits \div 10)
                    + ((r3 - 500) * 2 * (AccuracyUnits \div 10)) \div 1000]

\* updateStats() on the stats s with three values of Math.random()
UpdatedStats(s, r1, r2, r3) ==
    LET nodes == s.activeNodes + Floor(r1, 100) - 50
        accuracy == 997 * (AccuracyUnits \div 10)
                    + ((r3 - 500) * 2 * (AccuracyUnits \div 10)) \div 1000
    IN  [s EXCEPT !.activeNodes = Max(100000, nodes),
                  !.energySaved = @ + Floor(r2, 50),
                  !.aiAccuracy = Min(999 * (AccuracyUnits \div 10),
                                     Max(995 * (AccuracyUnits \div 10), accuracy)),
                  !.clamped = nodes < 100000]

\* the interval of startStatsUpdate fires: updateStats()
UpdateStats(r1, r2, r3) ==
    /\ UNCHANGED notAppVars
    /\ stats.interval
    /\ stats.updates < MaxUpdates
    /\ stats' = [UpdatedStats(stats, r1, r2, r3) EXCEPT
                   !.updates = @ + 1,
                   !.afterDestroy = @ \/ app.state = "destroyed"]
    /\ UNCHANGED <<app, appParticles>>

\* setStats(newStats): Object.assign(this.stats, newStats)
SetStats(nodes, saved) ==
    /\ UNCHANGED notAppVars
    /\ app.state = "ready"
    /\ stats' = [stats EXCEPT !.activeNodes = nodes, !.energySaved = saved]
    /\ UNCHANGED <<app, appParticles>>

\* destroy(): the pending frame is cancelled, the interval named by
\* this.statsInterval is cleared, the listeners are removed
AppDestroy ==
    /\ UNCHANGED notAppVars
    /\ app.state = "ready"
    /\ app' = [app EXCEPT !.state = "destroyed",
                          !.frame = IF app.animationId THEN app.pending > 1
                                    ELSE @,
                          !.pending = IF app.animationId /\ @ > 0 THEN @ - 1
                                      ELSE @]
    /\ stats' = IF stats.statsInterval THEN [stats EXCEPT !.interval = FALSE]
                ELSE stats
    /\ UNCHANGED appParticles

AppNext ==
    \/ \E c \in BOOLEAN : \E ps \in NewParticles(app.width) : AppStart(c, ps)
    \/ \E nx \in RandomX(app.width) : AppFrame(nx)
    \/ VisibilityChange
    \/ \E cw \in ContainerWidths : AppResize(cw)
    \/ \E ps \in NewParticles(app.width) : AppResizeTimer(ps)
    \/ AppDestroy

\* the particle loop alone: the page and its visibility
LoopNext ==
    \/ \E c \in BOOLEAN : \E ps \in NewParticles(app.width) : AppStart(c, ps)
    \/ \E nx \in RandomX(app.width) : AppFrame(nx)
    \/ VisibilityChange
    \/ AppDestroy

\* the stats of a page without the particles container
StatsNext ==
    \/ AppStart(FALSE, <<>>)
    \/ \E nx \in RandomX(app.width) : AppFrame(nx)
    \/ VisibilityChange
    \/ \E r1 \in Randoms, r2 \in Randoms, r3 \in Randoms : UpdateStats(r1, r2, r3)
    \/ \E nodes \in {99000, 100020}, saved \in {0} : SetStats(nodes, saved)
    \/ AppDestroy


(***************************************************************************)
(* The ambient particles of a [data-particles] button:                     *)
(* ButtonSystem.initParticles (script.js).  Coordinates are quarters of a  *)
(* px; Math.random is sampled at its ends.                                 *)
(***************************************************************************)
\* particleCount (30 in the source), scaled down
ParticleCount == 1

\* btn.offsetWidth and btn.offsetHeight, in quarter px
CanvasWidth == 12
CanvasHeight == 8
\* (Math.random() - 0.5) * 0.5, in quarter px
RandomDrift == {-1, 1}

NoCanvas == [state |-> "none", ctx |-> FALSE, frame |-> FALSE,
             thrown |-> FALSE, drew |-> FALSE]

CanvasInit ==
    /\ pcanvas = NoCanvas
    /\ pcParticles = <<>>

\* the particles initParticles can create
InitialParticles ==
    [1..ParticleCount -> [x : {0, CanvasWidth - 1}, y : {0, CanvasHeight - 1},
                          vx : RandomDrift, vy : RandomDrift]]

\* the forEach body of animateParticles: move, then wrap around the edges
Wrap(p) ==
    LET x1 == p.x + p.vx
        y1 == p.y + p.vy
        x2 == IF x1 < 0 THEN CanvasWidth ELSE x1
        x3 == IF x2 > CanvasWidth THEN 0 ELSE x2
        y2 == IF y1 < 0 THEN CanvasHeight ELSE y1
        y3 == IF y2 > CanvasHeight THEN 0 ELSE y2
    IN [p EXCEPT !.x = x3, !.y = y3]

\* animateParticles(): ctx.clearRect(...) throws on a null context, before
\* any particle is moved and before the next frame is requested
AnimateParticles(c) ==
    IF ~c.ctx THEN [c EXCEPT !.thrown = TRUE, !.frame = FALSE, !.state = "failed"]
    ELSE [c EXCEPT !.drew = TRUE, !.frame = TRUE, !.state = "running"]

\* initParticles() for one [data-particles] button
InitParticles(canvasPresent, ctxOk, ps) ==
    /\ UNCHANGED notCanvasVars
    /\ pcanvas.state = "none"
    /\ IF ~canvasPresent
       THEN /\ pcanvas' = [pcanvas EXCEPT !.state = "absent"]
            /\ UNCHANGED pcParticles
       ELSE /\ pcanvas' = AnimateParticles([pcanvas EXCEPT !.ctx = ctxOk])
            /\ pcParticles' = IF ctxOk THEN [i \in 1..Len(ps) |-> Wrap(ps[i])]
                              ELSE ps

\* the callback of requestAnimationFrame: animateParticles()
CanvasFrame ==
    /\ UNCHANGED notCanvasVars
    /\ pcanvas.frame
    /\ pcanvas' = AnimateParticles(pcanvas)
    /\ pcParticles' = [i \in 1..Len(pcParticles) |-> Wrap(pcParticles[i])]

CanvasNext ==
    \/ \E c \in BOOLEAN, x \in BOOLEAN : \E ps \in InitialParticles :
          InitParticles(c, x, ps)
    \/ CanvasFrame


(***************************************************************************)
(* Operations on a page that may lack their target elements: the           *)
(* navigation handlers of ComponentManager (initializeHeader,              *)
(* initializeNavigation, openNavigation, closeNavigation) and load() with  *)
(* a selector that matches nothing.                                        *)
(***************************************************************************)
NavElements == {"header", "navToggle", "navMenu", "navOverlay", "navLink"}

\* ariaExpanded: the aria-expanded attribute of #navToggle; overflow:
\* document.body.style.overflow; called: openNavigation or closeNavigation
\* has run
NoNav == [state |-> "none", present |-> {}, active |-> {},
          narrow |-> FALSE, thrown |-> FALSE, rejected |-> FALSE,
          ariaExpanded |-> "unset", overflow |-> "", called |-> FALSE]

NavInit == nav = NoNav

\* the elements openNavigation and closeNavigation touch, in the order in
\* which they touch them
NavOrder == <<"navToggle", "navMenu", "navOverlay">>

\* how many of the classList calls run before one hits a missing element
RECURSIVE Reached(_, _)
Reached(present, k) ==
    IF k > Len(NavOrder) THEN Len(NavOrder)
    ELSE IF NavOrder[k] \notin present THEN k - 1
    ELSE Reached(present, k + 1)

DoneElements(present) == {NavOrder[k] : k \in 1..Reached(present, 1)}

\* openNavigation(): classList.add on toggle, menu and overlay; a missing
\* element makes the call on null throw a TypeError
OpenNavigation(n) ==
    IF Reached(n.present, 1) < Len(NavOrder)
    THEN [n EXCEPT !.active = @ \cup DoneElements(n.present),
                   !.thrown = TRUE, !.called = TRUE]
    ELSE [n EXCEPT !.active = @ \cup DoneElements(n.present),
                   !.ariaExpanded = "true", !.overflow = "hidden",
                   !.called = TRUE]

\* closeNavigation(): classList.remove on toggle, menu and overlay
CloseNavigation(n) ==
    IF Reached(n.present, 1) < Len(NavOrder)
    THEN [n EXCEPT !.active = @ \ DoneElements(n.present),
                   !.thrown = TRUE, !.called = TRUE]
    ELSE [n EXCEPT !.active = @ \ DoneElements(n.present),
                   !.ariaExpanded = "false", !.overflow = "",
                   !.called = TRUE]

\* initializeExistingComponents() on a page with the elements els, of which
\* the markup marks those of marked active, in a narrow (innerWidth <= 768)
\* or a wide window
NavInitialize(els, marked, narrow) ==
    /\ UNCHANGED notNavVars
    /\ nav.state = "none"
    /\ marked \subseteq els
    /\ nav' = [nav EXCEPT !.state = "ready", !.present = els,
                          !.active = marked, !.narrow = narrow]

\* click on #navToggle: the listener exists if header, toggle and menu do
ToggleClick ==
    /\ UNCHANGED notNavVars
    /\ nav.state = "ready"
    /\ {"header", "navToggle", "navMenu"} \subseteq nav.present
    /\ nav' = IF "navMenu" \in nav.active THEN CloseNavigation(nav)
              ELSE OpenNavigation(nav)

\* click on #navOverlay: the listener exists if header and overlay do
OverlayClick ==
    /\ UNCHANGED notNavVars
    /\ nav.state = "ready"
    /\ {"header", "navOverlay"} \subseteq nav.present
    /\ nav' = CloseNavigation(nav)

\* click on a .nav-link
NavLinkClick ==
    /\ UNCHANGED notNavVars
    /\ nav.state = "ready"
    /\ "navLink" \in nav.present
    /\ nav' = IF nav.narrow THEN CloseNavigation(nav) ELSE nav

\* keydown with key Escape
EscapeKey ==
    /\ UNCHANGED notNavVars
    /\ nav.state = "ready"
    /\ nav' = CloseNavigation(nav)

\* load(selector, path) with a selector that matches no element: the async
\* function throws, its promise is rejected
LoadMissingContainer ==
    /\ UNCHANGED notNavVars
    /\ nav.state = "ready"
    /\ nav' = [nav EXCEPT !.rejected = TRUE]

\* the three elements openNavigation and closeNavigation mark
NavMarked == {NavOrder[i] : i \in 1..Len(NavOrder)}

\* the active classes a page's markup can start with: none, or a menu
\* rendered open
NavMarkups == {{}, {"navMenu"}}

NavNext ==
    \/ \E els \in SUBSET NavElements, marked \in NavMarkups, narrow \in BOOLEAN :
           NavInitialize(els, marked, narrow)
    \/ ToggleClick
    \/ OverlayClick
    \/ NavLinkClick
    \/ EscapeKey
    \/ LoadMissingContainer

(***************************************************************************)
(* EnergyMonitor.connectWebSocket and FormHandler.handleSubmit             *)
(* (112energie-critical/src/scripts/components.js).  Time is counted in    *)
(* ms; a timer is the time since its setTimeout.                           *)
(***************************************************************************)
\* how many close events, and how many submit events, a behaviour has
MaxCloses == 2
MaxSubmits == 2

\* setTimeout(() => this.connectWebSocket(), 5000)
ReconnectDelay == 5000
\* handleSubmit: setTimeout(() => { form.reset(); ... }, 1500)
SubmitDelay == 1500

MonitorTickMs == ReconnectDelay \div TicksPerDelay

\* live counts the sockets of the monitor that are connecting or open;
\* errored: the current socket raised an error event; destroyed: destroy()
\* was called
NoMonitor == [state |-> "none", hasWebSocket |-> FALSE, ws |-> "none",
              status |-> "none", timers |-> <<>>, attempts |-> 0,
              closes |-> 0, simulations |-> 0, live |-> 0,
              errored |-> FALSE, destroyed |-> FALSE]

NoForm == [submits |-> 0, issued |-> 0, pending |-> <<>>, notified |-> 0]

MonitorInit ==
    /\ monitor = NoMonitor
    /\ form = NoForm

\* startSimulation(): one more setInterval feeds simulated data
StartSimulation(m) == [m EXCEPT !.simulations = @ + 1]

\* connectWebSocket(); throws: new WebSocket(CONFIG.WEBSOCKET_URL) threw
ConnectWebSocket(m, throws) ==
    LET called == [m EXCEPT !.attempts = @ + 1]
    IN  IF m.hasWebSocket
        THEN IF throws
             THEN StartSimulation(called)
             ELSE [called EXCEPT !.ws = "connecting", !.live = @ + 1,
                                 !.errored = FALSE]
        ELSE StartSimulation(called)

\* ws.onclose without its setTimeout
OnClose_NoReconnect(m) ==
    [m EXCEPT !.ws = "closed", !.status = "offline", !.closes = @ + 1,
              !.live = IF m.ws = "closing" THEN @ ELSE @ - 1]

\* ws.onclose: the status goes offline and one reconnect timer is started
OnClose(m) ==
    [m EXCEPT !.ws = "closed", !.status = "offline", !.closes = @ + 1,
              !.live = IF m.ws = "closing" THEN @ ELSE @ - 1,
              !.timers = Append(@, 0)]

\* an onerror that also starts a reconnect timer
OnError_Reconnects(m) ==
    [m EXCEPT !.status = "offline", !.errored = TRUE,
              !.timers = Append(@, 0)]

\* ws.onerror: the error is logged and the status goes offline
OnError(m) == [m EXCEPT !.status = "offline", !.errored = TRUE]

\* new EnergyMonitor(): init() calls connectWebSocket(), initChart() and
\* startSimulation()
MonitorStart(hasWebSocket, throws) ==
    /\ UNCHANGED notMonitorVars
    /\ monitor.state = "none"
    /\ monitor' = StartSimulation(ConnectWebSocket(
                     [monitor EXCEPT !.state = "running",
                                     !.hasWebSocket = hasWebSocket], throws))
    /\ UNCHANGED form

\* ws.onopen
SocketOpen ==
    /\ UNCHANGED notMonitorVars
    /\ monitor.ws = "connecting"
    /\ monitor' = [monitor EXCEPT !.ws = "open", !.status = "online"]
    /\ UNCHANGED form

\* ws.onerror: only the status changes; the socket's close event follows
SocketError ==
    /\ UNCHANGED notMonitorVars
    /\ monitor.ws \in {"connecting", "open"}
    /\ monitor' = OnError(monitor)
    /\ UNCHANGED form

\* the close event of the current socket: the server or the network ended
\* the connection, the connection could not be made, or close() was called
SocketClose ==
    /\ UNCHANGED notMonitorVars
    /\ monitor.ws \in {"connecting", "open", "closing"}
    /\ monitor.closes < MaxCloses
    /\ monitor' = OnClose(monitor)
    /\ UNCHANGED form

\* destroy(): if (this.ws) this.ws.close()
MonitorDestroy ==
    /\ UNCHANGED notMonitorVars
    /\ monitor.state = "running"
    /\ ~monitor.destroyed
    /\ monitor' = IF monitor.ws \in {"connecting", "open"}
                  THEN [monitor EXCEPT !.ws = "closing", !.live = @ - 1,
                                       !.destroyed = TRUE]
                  ELSE [monitor EXCEPT !.destroyed = TRUE]
    /\ UNCHANGED form

\* the timer of onclose fires: () => this.connectWebSocket()
ReconnectTimer(throws) ==
    /\ UNCHANGED notMonitorVars
    /\ monitor.timers # <<>>
    /\ Head(monitor.timers) >= ReconnectDelay
    /\ monitor' = ConnectWebSocket([monitor EXCEPT !.timers = Tail(@)], throws)
    /\ UNCHANGED form

\* a submit event reaches handleSubmit(e); valid is validateForm(form).
\* A valid form starts the simulated API call, an invalid one starts nothing
HandleSubmit(valid) ==
    /\ UNCHANGED notMonitorVars
    /\ form.submits < MaxSubmits
    /\ form' = IF valid
               THEN [form EXCEPT !.submits = @ + 1, !.issued = @ + 1,
                                 !.pending = Append(@, 0)]
               ELSE [form EXCEPT !.submits = @ + 1]
    /\ UNCHANGED monitor

\* the timer of handleSubmit fires: the form is reset and the success
\* notification is shown
SubmitTimer ==
    /\ UNCHANGED notMonitorVars
    /\ form.pending # <<>>
    /\ Head(form.pending) >= SubmitDelay
    /\ form' = [form EXCEPT !.pending = Tail(@), !.notified = @ + 1]
    /\ UNCHANGED monitor

TimersDue ==
    \/ \E i \in 1..Len(monitor.timers) : monitor.timers[i] >= ReconnectDelay
    \/ \E i \in 1..Len(form.pending) : form.pending[i] >= SubmitDelay

\* MonitorTickMs pass; a timer that is due fires before more time passes
MonitorTick ==
    /\ UNCHANGED notMonitorVars
    /\ ~TimersDue
    /\ monitor.timers # <<>> \/ form.pending # <<>>
    /\ monitor' = [monitor EXCEPT !.timers =
                     [i \in 1..Len(@) |-> @[i] + MonitorTickMs]]
    /\ form' = [form EXCEPT !.pending =
                     [i \in 1..Len(@) |-> @[i] + MonitorTickMs]]

MonitorNext ==
    \/ \E hasWebSocket \in BOOLEAN, throws \in BOOLEAN :
          MonitorStart(hasWebSocket, throws)
    \/ SocketOpen
    \/ SocketError
    \/ SocketClose
    \/ MonitorDestroy
    \/ \E throws \in BOOLEAN : ReconnectTimer(throws)
    \/ \E valid \in BOOLEAN : HandleSubmit(valid)
    \/ SubmitTimer
    \/ MonitorTick

(***************************************************************************)
(* The service worker (12_Backup/Monthly/Website_Backup_2025-08-23/sw.js). *)
(* A response body is the version of the site it was served from, so that  *)
(* a cached response and a network response of one URL can differ.         *)
(***************************************************************************)
\* how many versions of the site get deployed
MaxDeploys == 2

UrlsToCache == {"/", "/index.html", "/assets/css/style.css",
                "/assets/js/script.js"}
Urls == UrlsToCache \cup {"/api/prices"}
Methods == {"GET", "POST"}

NoFetch == [url |-> "none", method |-> "none", source |-> "none",
            body |-> 0, network |-> FALSE]

WorkerInit ==
    /\ worker = [state |-> "parsed", last |-> NoFetch]
    /\ cacheStorage = [u \in Urls |-> 0]
    /\ site = [version |-> 1, up |-> TRUE]

\* cache.addAll(urlsToCache), every response being ok
AddAll(cache, version) ==
    [u \in Urls |-> IF u \in UrlsToCache THEN version ELSE cache[u]]

\* caches.match(request): a stored response of that URL, for a GET only
Match(cache, url, method) ==
    IF method = "GET" /\ cache[url] # 0 THEN cache[url] ELSE 0

\* a fetch handler that asks the network first
RespondWith_NetworkFirst(cache, url, method) ==
    IF site.up
    THEN [url |-> url, method |-> method, source |-> "network",
          body |-> site.version, network |-> TRUE]
    ELSE [url |-> url, method |-> method, source |-> "cache",
          body |-> Match(cache, url, method), network |-> TRUE]

\* caches.match(event.request).then(response => response || fetch(request));
\* body 0 from the network is a network error
RespondWith(cache, url, method) ==
    IF Match(cache, url, method) # 0
    THEN [url |-> url, method |-> method, source |-> "cache",
          body |-> Match(cache, url, method), network |-> FALSE]
    ELSE [url |-> url, method |-> method, source |-> "network",
          body |-> IF site.up THEN site.version ELSE 0, network |-> TRUE]

\* the install event: addAll stores all four responses or, when a request
\* fails, none, and then the worker is discarded
Install ==
    /\ UNCHANGED notWorkerVars
    /\ worker.state = "parsed"
    /\ IF site.up
       THEN /\ cacheStorage' = AddAll(cacheStorage, site.version)
            /\ worker' = [worker EXCEPT !.state = "active"]
       ELSE /\ worker' = [worker EXCEPT !.state = "redundant"]
            /\ UNCHANGED cacheStorage
    /\ UNCHANGED site

\* a later page load registers sw.js again after a failed install
Register ==
    /\ UNCHANGED notWorkerVars
    /\ worker.state = "redundant"
    /\ worker' = [worker EXCEPT !.state = "parsed"]
    /\ UNCHANGED <<cacheStorage, site>>

\* the fetch event of a controlled page
FetchEvent(url, method) ==
    /\ UNCHANGED notWorkerVars
    /\ worker.state = "active"
    /\ worker' = [worker EXCEPT !.last = RespondWith(cacheStorage, url, method)]
    /\ UNCHANGED <<cacheStorage, site>>

\* a new version of the site is deployed
Deploy ==
    /\ UNCHANGED notWorkerVars
    /\ site.version < MaxDeploys
    /\ site' = [site EXCEPT !.version = @ + 1]
    /\ UNCHANGED <<worker, cacheStorage>>

\* the network or the server goes away or comes back
Outage ==
    /\ UNCHANGED notWorkerVars
    /\ site' = [site EXCEPT !.up = ~@]
    /\ UNCHANGED <<worker, cacheStorage>>

WorkerNext ==
    \/ Install
    \/ Register
    \/ \E url \in Urls, method \in Methods : FetchEvent(url, method)
    \/ Deploy
    \/ Outage

(***************************************************************************)
(* HeroController.initializeTypewriterEffect and typeWriter                *)
(* (src/scripts/components.js).  The subtitle's content is a list of       *)
(* nodes; reading innerHTML serialises it and assigning innerHTML parses   *)
(* the assigned string, as the browser does.                               *)
(***************************************************************************)
\* page loads of one behaviour
MaxPageLoads == 4

\* the markup of the subtitle, as the server sends it
SubtitleSources == {<<"a", "b">>,
                    <<"a", "&", "a", "m", "p", ";", "b">>,
                    <<"&", "l", "t", ";", "b">>,
                    <<"<", "b", ">", "a", "<", "/", "b", ">">>}

Letters == {"a", "b", "m", "p", "l", "t", "g"}

TextNode(ch) == [tag |-> <<>>, data |-> <<ch>>]

StartsWith(s, i, t) ==
    i + Len(t) - 1 <= Len(s) /\ SubSeq(s, i, i + Len(t) - 1) = t

\* the first position from i on where t starts in s, 0 if there is none
RECURSIVE IndexOf(_, _, _)
IndexOf(s, i, t) ==
    IF i + Len(t) - 1 > Len(s) THEN 0
    ELSE IF StartsWith(s, i, t) THEN i
    ELSE IndexOf(s, i + 1, t)

Amp == <<"&", "a", "m", "p", ";">>
Lt == <<"&", "l", "t", ";">>
Gt == <<"&", "g", "t", ";">>

\* the characters of a piece of markup without tags: character references
\* are decoded
RECURSIVE Decode(_, _)
Decode(s, i) ==
    IF i > Len(s) THEN <<>>
    ELSE IF StartsWith(s, i, Amp) THEN <<"&">> \o Decode(s, i + Len(Amp))
    ELSE IF StartsWith(s, i, Lt) THEN <<"<">> \o Decode(s, i + Len(Lt))
    ELSE IF StartsWith(s, i, Gt) THEN <<">">> \o Decode(s, i + Len(Gt))
    ELSE <<s[i]>> \o Decode(s, i + 1)

\* the HTML fragment parser on the string assigned to innerHTML: a '<'
\* opens a tag only before a letter, a tag cut off by the end of the string
\* is dropped, an element without end tag extends to the end
RECURSIVE ParseFrom(_, _)
ParseFrom(s, i) ==
    IF i > Len(s) THEN <<>>
    ELSE IF s[i] = "<" /\ i < Len(s) /\ s[i + 1] \in Letters
    THEN LET close == IndexOf(s, i, <<">">>)
             tag == SubSeq(s, i + 1, close - 1)
             endTag == <<"<", "/">> \o tag \o <<">">>
             e == IndexOf(s, close + 1, endTag)
             inner == SubSeq(s, close + 1, IF e = 0 THEN Len(s) ELSE e - 1)
         IN  IF close = 0 THEN <<>>
             ELSE <<[tag |-> tag, data |-> Decode(inner, 1)]>>
                  \o (IF e = 0 THEN <<>> ELSE ParseFrom(s, e + Len(endTag)))
    ELSE IF s[i] = "<" /\ i < Len(s) /\ s[i + 1] = "/"
    THEN LET close == IndexOf(s, i, <<">">>)
         IN  IF close = 0 THEN <<>> ELSE ParseFrom(s, close + 1)
    ELSE IF StartsWith(s, i, Amp) THEN <<TextNode("&")>> \o ParseFrom(s, i + Len(Amp))
    ELSE IF StartsWith(s, i, Lt) THEN <<TextNode("<")>> \o ParseFrom(s, i + Len(Lt))
    ELSE IF StartsWith(s, i, Gt) THEN <<TextNode(">")>> \o ParseFrom(s, i + Len(Gt))
    ELSE <<TextNode(s[i])>> \o ParseFrom(s, i + 1)

Parse(s) == ParseFrom(s, 1)

\* the HTML serialiser on text: & < > are written as character references
RECURSIVE Escape(_)
Escape(text) ==
    IF text = <<>> THEN <<>>
    ELSE (IF Head(text) = "&" THEN Amp
          ELSE IF Head(text) = "<" THEN Lt
          ELSE IF Head(text) = ">" THEN Gt
          ELSE <<Head(text)>>) \o Escape(Tail(text))

\* element.innerHTML read
RECURSIVE Serialize(_)
Serialize(nodes) ==
    IF nodes = <<>> THEN <<>>
    ELSE LET n == Head(nodes)
         IN  (IF n.tag = <<>> THEN Escape(n.data)
              ELSE <<"<">> \o n.tag \o <<">">> \o Escape(n.data)
                   \o <<"<", "/">> \o n.tag \o <<">">>)
             \o Serialize(Tail(nodes))

NoHero == [page |-> "none", hasSubtitle |-> FALSE, original |-> <<>>,
           html |-> <<>>, index |-> 0, timer |-> FALSE, playedHere |-> FALSE,
           plays |-> 0, loads |-> 0]

HeroInit ==
    /\ hero = NoHero
    /\ subtitle = <<>>
    /\ sessionStorage = FALSE

\* typeWriter(element, html, index, speed) on the state h, nodes: one more
\* character is appended by element.innerHTML += html.charAt(index) and the
\* next call is left to a timer; past the end nothing happens
TypeWriter(h, nodes) ==
    IF h.index < Len(h.html)
    THEN [hero |-> [h EXCEPT !.index = @ + 1, !.timer = TRUE],
          nodes |-> Parse(Serialize(nodes) \o <<h.html[h.index + 1]>>)]
    ELSE [hero |-> [h EXCEPT !.timer = FALSE], nodes |-> nodes]

\* a page of the site is loaded in the tab: new HeroController() runs
\* initializeTypewriterEffect(); src is the subtitle's markup on that page
HeroPageLoad(hasSubtitle, src) ==
    /\ UNCHANGED notHeroVars
    /\ hero.loads < MaxPageLoads
    /\ LET page == [NoHero EXCEPT !.page = "loaded",
                                  !.hasSubtitle = hasSubtitle,
                                  !.original = IF hasSubtitle THEN Parse(src)
                                               ELSE <<>>,
                                  !.plays = hero.plays,
                                  !.loads = hero.loads + 1]
           typing == TypeWriter([page EXCEPT !.html = Serialize(page.original),
                                             !.playedHere = TRUE,
                                             !.plays = @ + 1], <<>>)
       IN  IF ~hasSubtitle \/ sessionStorage
           THEN /\ hero' = page
                /\ subtitle' = page.original
                /\ UNCHANGED sessionStorage
           ELSE /\ hero' = typing.hero
                /\ subtitle' = typing.nodes
                /\ sessionStorage' = TRUE

\* the timer of typeWriter fires
TypeTimer ==
    /\ UNCHANGED notHeroVars
    /\ hero.timer
    /\ hero' = TypeWriter(hero, subtitle).hero
    /\ subtitle' = TypeWriter(hero, subtitle).nodes
    /\ UNCHANGED sessionStorage

\* the tab is closed and the site is opened in a new one: a new session
NewSession ==
    /\ UNCHANGED notHeroVars
    /\ hero.page = "loaded"
    /\ hero' = [NoHero EXCEPT !.loads = hero.loads]
    /\ subtitle' = <<>>
    /\ sessionStorage' = FALSE

HeroNext ==
    \/ \E hasSubtitle \in BOOLEAN, src \in SubtitleSources :
          HeroPageLoad(hasSubtitle, src)
    \/ TypeTimer
    \/ NewSession

(***************************************************************************)
(* Debouncing: Utils.debounce (112energie-critical components.js),         *)
(* EnergyApp.debounce and EnergyApp.handleResize (112energie.js).  Time is *)
(* counted in ms; the timers are the setTimeout callbacks not yet run.     *)
(***************************************************************************)
\* calls of the debounced handler in one behaviour
MaxCalls == 3

\* handleResize: setTimeout(..., 250); also the wait of the resize listener
ResizeWait == 250
\* Utils.debounce(() => this.validateField(input), 500)
InputWait == 500

DebounceTickMs == ResizeWait \div TicksPerDelay

DebounceImpls == {"Utils.debounce", "EnergyApp.debounce", "handleResize"}
\* the waits each implementation is used with
Waits(impl) == IF impl = "handleResize" THEN {ResizeWait}
               ELSE {ResizeWait, InputWait}
\* what a call passes to the wrapper
CallArgs == {"a", "b"}

NoInvocation == [args |-> "none", sinceCall |-> 0, burst |-> 0]

NoDebounced == [impl |-> "none", wait |-> 0, immediate |-> FALSE,
                timeout |-> 0, timers |-> <<>>, calls |-> 0,
                lastArgs |-> "none", sinceCall |-> 0, burst |-> 0,
                invocations |-> 0, last |-> NoInvocation, sync |-> FALSE]

DebounceInit == debounced = NoDebounced

\* handleResize ignores its event and calls this.onResize() without
\* arguments; the wrappers pass ...args on
Forwarded(impl, args) == IF impl = "handleResize" THEN "none" ELSE args

\* clearTimeout(id): the timer of that id, if it still waits, is removed
ClearTimeout(timers, id) == SelectSeq(timers, LAMBDA t : t.id # id)

\* func(...args) runs: what it received and when
Invoke(d, args) ==
    [d EXCEPT !.invocations = @ + 1,
              !.last = [args |-> args, sinceCall |-> d.sinceCall,
                        burst |-> d.burst],
              !.burst = 0]

\* a call that sets its timer without clearing the one before
Reschedule_KeepsTimer(d, args) ==
    [d EXCEPT !.timeout = d.calls + 1,
              !.timers = Append(@, [id |-> d.calls + 1, age |-> 0,
                                    args |-> Forwarded(d.impl, args)])]

\* clearTimeout(timeout); timeout = setTimeout(later, wait)
Reschedule(d, args) ==
    [d EXCEPT !.timeout = d.calls + 1,
              !.timers = Append(ClearTimeout(@, d.timeout),
                                [id |-> d.calls + 1, age |-> 0,
                                 args |-> Forwarded(d.impl, args)])]

\* debounce(func, wait) is called, or the EnergyApp is constructed; with two
\* arguments the parameter immediate of EnergyApp.debounce is undefined
Debounce(impl, wait) ==
    /\ UNCHANGED notDebounceVars
    /\ debounced.impl = "none"
    /\ wait \in Waits(impl)
    /\ debounced' = [NoDebounced EXCEPT !.impl = impl, !.wait = wait]

\* executedFunction(...args), or handleResize(event)
DebouncedCall(args) ==
    /\ UNCHANGED notDebounceVars
    /\ debounced.impl # "none"
    /\ debounced.calls < MaxCalls
    /\ LET callNow == debounced.immediate /\ debounced.timeout = 0
           called == [Reschedule(debounced, args)
                         EXCEPT !.calls = @ + 1, !.lastArgs = args,
                                !.sinceCall = 0, !.burst = @ + 1]
       IN  debounced' = IF callNow
                        THEN [Invoke(called, args) EXCEPT !.sync = TRUE]
                        ELSE called

\* a timer fires: later() of the wrappers, the arrow function of handleResize
DebounceTimer(i) ==
    /\ UNCHANGED notDebounceVars
    /\ i \in 1..Len(debounced.timers)
    /\ debounced.timers[i].age >= debounced.wait
    /\ LET t == debounced.timers[i]
           fired == [debounced EXCEPT !.timers = ClearTimeout(@, t.id)]
       IN  debounced' =
              IF debounced.impl = "Utils.debounce"
              THEN Invoke([fired EXCEPT !.timers =
                              ClearTimeout(@, fired.timeout)], t.args)
              ELSE IF debounced.impl = "EnergyApp.debounce"
              THEN IF fired.immediate THEN [fired EXCEPT !.timeout = 0]
                   ELSE Invoke([fired EXCEPT !.timeout = 0], t.args)
              ELSE Invoke(fired, t.args)

\* DebounceTickMs pass; a timer that is due runs before more time passes
DebounceTick ==
    /\ UNCHANGED notDebounceVars
    /\ debounced.timers # <<>>
    /\ \A i \in 1..Len(debounced.timers) :
          debounced.timers[i].age < debounced.wait
    /\ debounced' = [debounced EXCEPT
                       !.sinceCall = @ + DebounceTickMs,
                       !.timers = [i \in 1..Len(@) |->
                                     [@[i] EXCEPT !.age = @ + DebounceTickMs]]]

DebounceNext ==
    \/ \E impl \in DebounceImpls, wait \in {ResizeWait, InputWait} :
          Debounce(impl, wait)
    \/ \E args \in CallArgs : DebouncedCall(args)
    \/ \E i \in 1..MaxCalls : DebounceTimer(i)
    \/ DebounceTick

(***************************************************************************)
(* Throttling: Utils.throttle (112energie-critical components.js) and      *)
(* throttle (unnamed/part_000).  func is taken to return normally.         *)
(***************************************************************************)
\* calls of the throttled handler in one behaviour
MaxThrottleCalls == 4

\* Utils.throttle(() => this.handleScroll(), 100)
ScrollLimit == 100

ThrottleTickMs == ScrollLimit \div TicksPerDelay

ThrottleImpls == {"Utils.throttle", "throttle"}

NoThrottled == [impl |-> "none", limit |-> 0, inThrottle |-> FALSE,
                timers |-> <<>>, calls |-> 0, lastArgs |-> "none",
                runs |-> 0, ranWith |-> "none", sinceRun |-> 0,
                dropped |-> 0]

ThrottleInit == throttled = NoThrottled

\* func runs but the window is not opened
RunThrottled_NoWindow(t, args) ==
    [t EXCEPT !.runs = @ + 1, !.ranWith = args, !.sinceRun = 0]

\* func.apply(this, args); inThrottle = true;
\* setTimeout(() => inThrottle = false, limit)
RunThrottled(t, args) ==
    [t EXCEPT !.runs = @ + 1, !.ranWith = args, !.sinceRun = 0,
              !.inThrottle = TRUE, !.timers = Append(@, 0)]

\* throttle(func, limit) is called: let inThrottle (undefined)
Throttle(impl) ==
    /\ UNCHANGED notThrottleVars
    /\ throttled.impl = "none"
    /\ throttled' = [NoThrottled EXCEPT !.impl = impl, !.limit = ScrollLimit]

\* the returned function is called
ThrottledCall(args) ==
    /\ UNCHANGED notThrottleVars
    /\ throttled.impl # "none"
    /\ throttled.calls < MaxThrottleCalls
    /\ LET called == [throttled EXCEPT !.calls = @ + 1, !.lastArgs = args]
       IN  throttled' = IF ~called.inThrottle
                        THEN RunThrottled(called, args)
                        ELSE [called EXCEPT !.dropped = @ + 1]

\* the timer fires: () => inThrottle = false
ThrottleTimer ==
    /\ UNCHANGED notThrottleVars
    /\ throttled.timers # <<>>
    /\ Head(throttled.timers) >= throttled.limit
    /\ throttled' = [throttled EXCEPT !.inThrottle = FALSE,
                                      !.timers = Tail(@)]

\* ThrottleTickMs pass; a timer that is due runs before more time passes
ThrottleTick ==
    /\ UNCHANGED notThrottleVars
    /\ throttled.timers # <<>>
    /\ \A i \in 1..Len(throttled.timers) :
          throttled.timers[i] < throttled.limit
    /\ throttled' = [throttled EXCEPT
                       !.sinceRun = @ + ThrottleTickMs,
                       !.timers = [i \in 1..Len(@) |-> @[i] + ThrottleTickMs]]

ThrottleNext ==
    \/ \E impl \in ThrottleImpls : Throttle(impl)
    \/ \E args \in CallArgs : ThrottledCall(args)
    \/ ThrottleTimer
    \/ ThrottleTick

(***************************************************************************)
(* The calculator's step wizard: calcNextStep and calcPrevStep move the    *)
(* 'active' class between the three .calc-step panels; calcNextStep on the *)
(* last step shows the calculation results.                                *)
(***************************************************************************)

\* calls of calcNextStep and calcPrevStep followed
MaxStepCalls == 5

\* the last step: calcNextStep advances while currentCalcStep < 3
LastStep == 3

\* the calculator's markup before any call: the first panel and the first
\* dot are active, the previous button is hidden, the next button reads
\* 'Volgende', the results are hidden and the navigation is shown
StepMarkup ==
    [active |-> {1}, dots |-> {1}, prevShown |-> FALSE,
     nextText |-> "Volgende", stepsShown |-> TRUE, resultsShown |-> FALSE,
     navigationShown |-> TRUE, monthly |-> 0]

\* let currentCalcStep = 1; last and calls record the calls made, prevAtFirst
\* that calcPrevStep has run at step 1
StepInit ==
    steps = [currentCalcStep |-> 1, dom |-> StepMarkup, last |-> "none",
             calls |-> 0, prevAtFirst |-> FALSE]

\* updateStepIndicators(): the dots with index < currentCalcStep
UpdateStepIndicators(dom, step) ==
    [dom EXCEPT !.dots = {i \in 1..LastStep : i - 1 < step}]

\* updateNavigationButtons()
UpdateNavigationButtons(dom, step) ==
    [dom EXCEPT !.prevShown = (step # 1),
                !.nextText = IF step = LastStep THEN "Bereken" ELSE "Volgende"]

\* the 'active' class moves from the panel of step from to that of step to
MoveActive(dom, from, to) ==
    [dom EXCEPT !.active = (@ \ {from}) \cup {to}]

\* showCalculationResults() with the form inputs in
ShowCalculationResults(dom, in) ==
    [dom EXCEPT !.stepsShown = FALSE, !.monthly = MonthlyC(in),
                !.resultsShown = TRUE, !.navigationShown = FALSE]

\* a calcNextStep that advances past the last step
NextStep_NoUpperBound(s, in) ==
    [s EXCEPT !.currentCalcStep = @ + 1,
              !.dom = UpdateNavigationButtons(
                          UpdateStepIndicators(
                              MoveActive(@, s.currentCalcStep,
                                         s.currentCalcStep + 1),
                              s.currentCalcStep + 1),
                          s.currentCalcStep + 1)]

\* function calcNextStep(), the form holding the inputs in
NextStep(s, in) ==
    IF s.currentCalcStep < LastStep
    THEN [s EXCEPT !.currentCalcStep = @ + 1,
                   !.dom = UpdateNavigationButtons(
                               UpdateStepIndicators(
                                   MoveActive(@, s.currentCalcStep,
                                              s.currentCalcStep + 1),
                                   s.currentCalcStep + 1),
                               s.currentCalcStep + 1)]
    ELSE [s EXCEPT !.dom = ShowCalculationResults(@, in)]

\* function calcPrevStep()
PrevStep(s) ==
    IF s.currentCalcStep > 1
    THEN [s EXCEPT !.currentCalcStep = @ - 1,
                   !.dom = UpdateNavigationButtons(
                               UpdateStepIndicators(
                                   MoveActive(@, s.currentCalcStep,
                                              s.currentCalcStep - 1),
                                   s.currentCalcStep - 1),
                               s.currentCalcStep - 1)]
    ELSE s

\* window.calcNextStep() is called
CalcNextStep(in) ==
    /\ UNCHANGED notStepVars
    /\ steps.calls < MaxStepCalls
    /\ steps' = [NextStep(steps, in) EXCEPT !.last = "next",
                                           !.calls = steps.calls + 1]

\* window.calcPrevStep() is called
CalcPrevStep ==
    /\ UNCHANGED notStepVars
    /\ steps.calls < MaxStepCalls
    /\ steps' = [PrevStep(steps) EXCEPT
                     !.last = "prev", !.calls = steps.calls + 1,
                     !.prevAtFirst = @ \/ steps.currentCalcStep = 1]

StepNext ==
    \/ \E in \in InputsC : CalcNextStep(in)
    \/ CalcPrevStep

(***************************************************************************)
(* The chart buffers of the energy monitors.  EnergyMonitor keeps three     *)
(* parallel arrays (usage, production, timestamps) filled by                *)
(* updateChartData; the older EnergyMonitor keeps one array, filled by      *)
(* initChart and by the interval of startSimulation.  The code keeps 60     *)
(* points; the model keeps MaxDataPoints.                                   *)
(***************************************************************************)

\* this.maxDataPoints (60 in the code)
MaxDataPoints == 3

\* data updates followed for each monitor
MaxChartUpdates == 5

\* the data messages: currentUsage and solarProduction are each present or
\* missing
ChartMessages ==
    {[currentUsage |-> 3, solarProduction |-> 1],
     [currentUsage |-> 3], [solarProduction |-> 1],
     [dailyCost |-> 12]}

\* Math.random() * 3 + 2, to whole units
SimulatedPoints == {2, 4}

\* newData.<field> || 0
FieldOrZero(msg, field) ==
    IF field \in DOMAIN msg THEN msg[field] ELSE 0

\* array.shift() followed by nothing else: the array without its first
\* element
Shift(array) == Tail(array)

\* updates counts the calls of updateChartData and is the clock new Date()
\* reads; legacy is the older monitor ("none" until it is constructed)
ChartInit ==
    chart = [usage |-> <<>>, production |-> <<>>, timestamps |-> <<>>,
             updates |-> 0,
             legacy |-> "none", data |-> <<>>, legacyUpdates |-> 0]

\* an updateChartData that drops the newest point when the buffer is full
Pushed_DropsNewest(array, point) ==
    IF Len(array) + 1 > MaxDataPoints THEN array ELSE Append(array, point)

\* push(point), then shift() if the length exceeds maxDataPoints
Pushed(array, point) ==
    IF Len(array) + 1 > MaxDataPoints
    THEN Shift(Append(array, point))
    ELSE Append(array, point)

\* EnergyMonitor.updateChartData(newData): the three arrays are pushed, and
\* shifted together when usage exceeds maxDataPoints
UpdateChartData(newData) ==
    /\ UNCHANGED notChartVars
    /\ chart.updates < MaxChartUpdates
    /\ chart' = [chart EXCEPT
           !.usage = Pushed(@, FieldOrZero(newData, "currentUsage")),
           !.production = Pushed(@, FieldOrZero(newData, "solarProduction")),
           !.timestamps = Pushed(@, chart.updates + 1),
           !.updates = @ + 1]

\* the older EnergyMonitor is constructed: without the canvas nothing is
\* started, with it initChart pushes maxDataPoints points
LegacyConstruct(canvas, points) ==
    /\ UNCHANGED notChartVars
    /\ chart.legacy = "none"
    /\ chart' = [chart EXCEPT
           !.legacy = IF canvas THEN "running" ELSE "idle",
           !.data = IF canvas THEN points ELSE @]

\* the interval of the older monitor's startSimulation fires
LegacyInterval(point) ==
    /\ UNCHANGED notChartVars
    /\ chart.legacy = "running"
    /\ chart.legacyUpdates < MaxChartUpdates
    /\ chart' = [chart EXCEPT !.data = Pushed(@, point),
                              !.legacyUpdates = @ + 1]

ChartNext ==
    \/ \E newData \in ChartMessages : UpdateChartData(newData)
    \/ \E canvas \in BOOLEAN :
       \E points \in [1..MaxDataPoints -> SimulatedPoints] :
           LegacyConstruct(canvas, points)
    \/ \E point \in SimulatedPoints : LegacyInterval(point)

Init == LoaderInit /\ ButtonInit /\ CookieInit /\ CalcInit /\ WaveInit
        /\ AppInit /\ CanvasInit /\ NavInit /\ MonitorInit /\ WorkerInit
        /\ HeroInit /\ DebounceInit /\ ThrottleInit /\ StepInit /\ ChartInit

SpecLoader == Init /\ [][LoaderNext]_vars

SpecButtons == Init /\ [][ButtonNext]_vars

SpecCookie == Init /\ [][CookieNext]_vars

SpecCalc == Init /\ [][CalcNext]_vars

SpecWave == Init /\ [][WaveNext]_vars

SpecWavePointer == Init /\ [][WavePointerNext]_vars

SpecApp == Init /\ [][AppNext]_vars

SpecLoop == Init /\ [][LoopNext]_vars

SpecStats == Init /\ [][StatsNext]_vars

SpecCanvas == Init /\ [][CanvasNext]_vars

SpecNav == Init /\ [][NavNext]_vars

\* the event loop lets time pass and runs every timer that is due
SpecMonitor == Init /\ [][MonitorNext]_vars
               /\ WF_vars(MonitorTick)
               /\ WF_vars(\E throws \in BOOLEAN : ReconnectTimer(throws))
               /\ WF_vars(SubmitTimer)

SpecHero == Init /\ [][HeroNext]_vars

SpecWorker == Init /\ [][WorkerNext]_vars

\* the event loop lets time pass and runs every timer that is due
SpecDebounce == Init /\ [][DebounceNext]_vars
                /\ WF_vars(DebounceTick)
                /\ WF_vars(\E i \in 1..MaxCalls : DebounceTimer(i))

SpecStep == Init /\ [][StepNext]_vars

SpecThrottle == Init /\ [][ThrottleNext]_vars

SpecChart == Init /\ [][ChartNext]_vars

(***************************************************************************)
(* Claims about ComponentManager (checked under SpecLoader)                *)
(***************************************************************************)
\* The loads of path p whose fetch(p) has been issued and has not yielded
\* its text yet.
FetchesOutstanding(p) ==
    {l \in 1..MaxLoads : loads[l].pc \in {"fetching", "text"} /\ loads[l].path = p}

\* C1: two loads of one fragment path issue exactly one network fetch of it
\* between them, also when the second load starts before the first fetch
\* has resolved: no two fetches of one path are ever outstanding together.
C1_OneFetchPerPath ==
    \A p \in Paths : Cardinality(FetchesOutstanding(p)) <= 1

\* C2: when the fetch of a load fails (response.ok false, or a network
\* failure), that step leaves the container showing the component-error
\* block and the promise of loadComponent resolved; no promise of a load is
\* ever rejected.
C2_FetchFailureShowsError ==
    /\ [](\A l \in 1..MaxLoads : loads[l].promise # "rejected")
    /\ [][\A l \in 1..MaxLoads :
            (loads[l].pc \in {"fetching", "text"} /\ loads'[l].pc = "done")
            => /\ content'[loads[l].container] = "error"
               /\ loads'[l].outcome = "error"
               /\ loads'[l].promise = "resolved"]_vars

\* C2 witness: a load has ended in error on a failed fetch (no script was
\* ever requested), its promise resolved, a container showing the error.
C2_Witness ==
    /\ head = <<>>
    /\ \E l \in 1..MaxLoads :
         loads[l].outcome = "error" /\ loads[l].promise = "resolved"
    /\ \E c \in Containers : content[c] = "error"

\* C3: a load that has ended never changes anything again by itself, and a
\* reload(selector, path) always re-runs the load: its loadComponent call
\* never returns early leaving the unloaded container as it is.
C3_ReloadRerunsLoad ==
    [][/\ \A l \in 1..MaxLoads : loads[l].pc = "done" => loads'[l] = loads[l]
       /\ \A sel \in Selectors, p \in Paths, sl \in BOOLEAN :
            Reload(sel, p, sl) => loads'[nLoads'].outcome # "skipped"]_vars

\* C4: a load dispatches componentLoaded at most once, only after it has put
\* the fragment's HTML into the container, exactly once when it ends loaded
\* and never when it ends in error (or returns early).
C4_LoadedDispatchedOnce ==
    \A l \in 1..MaxLoads :
        /\ loads[l].dispatched <= 1
        /\ loads[l].dispatched = 1 => loads[l].injected
        /\ loads[l].outcome = "loaded" <=> loads[l].dispatched = 1
        /\ loads[l].outcome \in {"error", "skipped"} => loads[l].dispatched = 0
        /\ loads[l].pc # "done" => loads[l].dispatched = 0

\* C4 witness: one load ended loaded with its notification dispatched, and
\* another ended in error after its HTML had been injected (a script failed).
C4_Witness ==
    /\ \E l \in 1..MaxLoads : loads[l].outcome = "loaded" /\ loads[l].dispatched = 1
    /\ \E l \in 1..MaxLoads : loads[l].outcome = "error" /\ loads[l].injected

\* C5: once a path's text is in componentCache the entry stays, with the same
\* text, through every step that is not a clearCache call.
C5_CacheOnlyClearedByClearCache ==
    [][\A p \in Paths :
         componentCache[p] # "absent"
         => \/ componentCache'[p] = componentCache[p]
            \/ ClearCache(p)
            \/ ClearCacheAll]_vars

\* C6: the document head never holds two script elements with one src or two
\* link elements with one href.
C6_HeadHasNoDuplicates ==
    \A i, j \in 1..Len(head) :
        (i # j /\ head[i].tag = head[j].tag)
        => Resolve(head[i].url) # Resolve(head[j].url)

(***************************************************************************)
(* Claims about the particle systems                                       *)
(***************************************************************************)
\* C11: whenever a frame loop runs, the particle system holds exactly the
\* configured number of particle records.
C11_ParticleCountIsConfigured ==
    /\ (wave.state = "running" /\ wave.frame) => Len(waveParticles) = wave.n
    /\ (app.state = "ready" /\ app.container /\ app.frame)
          => Len(appParticles) = MaxParticles
    /\ pcanvas.frame => Len(pcParticles) = ParticleCount

\* the fixed margins: twice the pointer radius for the wave, the 100 px
\* below the container where rising particles are created
WaveMargin == 2 * MouseRadius
AppMargin == 2 * ResetBelow

\* C12: every particle's x and y are numbers within the canvas or container
\* dimensions plus the fixed margin, in every state.
C12_CoordinatesBounded ==
    /\ \A i \in 1..Len(waveParticles) :
          /\ ~waveParticles[i].nan
          /\ waveParticles[i].x >= -WaveMargin * PxUnits
          /\ waveParticles[i].x <= (wave.width + WaveMargin) * PxUnits
          /\ waveParticles[i].y >= -WaveMargin * PxUnits
          /\ waveParticles[i].y <= (InnerHeight + WaveMargin) * PxUnits
    /\ \A i \in 1..Len(appParticles) :
          /\ appParticles[i].x >= -AppMargin
          /\ appParticles[i].x <= app.width + AppMargin
          /\ appParticles[i].y >= -AppMargin
          /\ appParticles[i].y <= ContainerHeight + AppMargin
    /\ \A i \in 1..Len(pcParticles) :
          /\ pcParticles[i].x >= 0 /\ pcParticles[i].x <= CanvasWidth
          /\ pcParticles[i].y >= 0 /\ pcParticles[i].y <= CanvasHeight

\* C13: a frame that runs while the canvas is out of the viewport requests
\* no further frame; hiding the page leaves no frame request pending and
\* none is made while it is hidden; when the canvas or the page becomes
\* visible again a frame request is pending.
C13_LoopStopsWhileHidden ==
    /\ [](~wave.idleRequest)
    /\ [][/\ (wave.state = "running" /\ ~wave.isActive /\ wave'.isActive)
                => wave'.frame
          /\ (app.state = "ready" /\ ~app.hidden /\ app'.hidden) => ~app'.frame
          /\ (app.state = "ready" /\ app.hidden /\ app'.hidden /\ ~app.frame)
                => ~app'.frame
          /\ (app.state = "ready" /\ app.hidden /\ ~app'.hidden)
                => app'.frame]_vars

\* C15: with a canvas whose 2D context is unavailable the animation does
\* not start: no frame is requested, nothing is drawn, no exception is raised.
C15_NoContextNoAnimation ==
    /\ (wave.state \in {"running", "failed"} /\ ~wave.ctx)
          => (~wave.frame /\ ~wave.drew /\ ~wave.thrown)
    /\ (pcanvas.state \in {"running", "failed"} /\ ~pcanvas.ctx)
          => (~pcanvas.frame /\ ~pcanvas.drew /\ ~pcanvas.thrown)

(***************************************************************************)
(* Claims about the pointer interaction of the wave (SpecWavePointer)      *)
(***************************************************************************)
\* the frame now taken is an active frame of the wave that sampled s
ActiveFrame(s) ==
    /\ wave.state = "running" /\ wave.frame /\ wave.isActive
    /\ wave'.frame
    /\ mouse' = mouse
    /\ waveParticles' = UpdateParticles(wave, waveParticles, mouse, s)

\* 40 * (radius - distance) / radius of the component c of the unit vector
\* to the pointer, for a distance d > 0
Proportional(c, d) ==
    RoundDiv(c * 40 * PxUnits * (MouseRadius * PxUnits - d),
             d * MouseRadius * PxUnits)

\* particle i, within the radius, is displaced away from the pointer by
\* (radius - distance) / radius of 40 px (half of it in x) before it relaxes
PushedAway(i, s) ==
    LET p == waveParticles[i]
        d == ISqrt(Dist2(p, mouse, s))
        dx == mouse[1] * PxUnits - p.x
        dy == mouse[2] * PxUnits - WaveY(p, s)
        x1 == IF d = 0 THEN p.x - 20 * PxUnits
              ELSE p.x - RoundDiv(Proportional(dx, d), 2)
        y1 == IF d = 0 THEN WaveY(p, s) ELSE WaveY(p, s) - Proportional(dy, d)
    IN /\ (x1 - p.x) * dx <= 0
       /\ (y1 - WaveY(p, s)) * dy <= 0
       /\ waveParticles'[i].x = x1 + RoundDiv((p.originalX - x1) * 5, 100)
       /\ waveParticles'[i].y = y1 + s[2] * PxUnits

\* particle i is nearer to its resting x after the step than before
Nearer(i) ==
    Abs(waveParticles'[i].x - waveParticles[i].originalX)
        < Abs(waveParticles[i].x - waveParticles[i].originalX)

\* 5% of the remaining distance is less than half a unit of the coordinate
StepRoundsToZero(i) ==
    Abs(waveParticles[i].x - waveParticles[i].originalX) * 5 * 2 < 100

C14_MissingTargetIsNoError ==
    /\ ~nav.thrown
    /\ ~nav.rejected
    /\ wave.state = "inert" => (~wave.thrown /\ ~wave.frame /\ waveParticles = <<>>)

(***************************************************************************)
(* Claims about retries (checked under SpecMonitor and SpecLoader)         *)
(***************************************************************************)
\* C16 (fetch half, under SpecLoader): a load that fails, whether fetch
\* rejected or the response was not ok, starts no fetch: a new fetch needs a
\* new call of loadComponent
C16_FailedFetchNotReissued ==
    [][\A l \in 1..MaxLoads :
          (loads[l].outcome # "error" /\ loads'[l].outcome = "error")
          => /\ nLoads' = nLoads
             /\ \A k \in 1..MaxLoads :
                   loads'[k].pc = "fetching" => loads[k].pc = "fetching"]_vars

\* C16: the monitor's reconnect is the only automatic retry.  Every close
\* of the monitor's socket starts exactly one timer, the timer calls
\* connectWebSocket once and not before 5 s have passed, so that the calls
\* of connectWebSocket are the first one plus one per close that is not
\* still waiting; every close is eventually followed by its attempt; and
\* a form's simulated request is started by a submit event only, so that
\* an invalid submission is not sent again
C16_OnlyReconnectRetries ==
    /\ [](monitor.state = "running"
          => /\ Len(monitor.timers) + monitor.attempts = monitor.closes + 1
             /\ Len(monitor.timers) <= 1)
    /\ [][monitor.closes' # monitor.closes
          => /\ monitor.closes' = monitor.closes + 1
             /\ monitor.timers' = Append(monitor.timers, 0)
             /\ monitor.attempts' = monitor.attempts]_vars
    /\ [][(monitor.state = "running" /\ monitor.attempts' # monitor.attempts)
          => /\ monitor.timers # <<>>
             /\ Head(monitor.timers) >= ReconnectDelay
             /\ monitor.timers' = Tail(monitor.timers)
             /\ monitor.attempts' = monitor.attempts + 1]_vars
    /\ [][form.issued' # form.issued
          => /\ form.submits' = form.submits + 1
             /\ form.issued' = form.issued + 1]_vars
    /\ \A k \in 1..MaxCloses :
          (monitor.closes = k) ~> (monitor.attempts = k + 1)

\* the socket closed twice and was reconnected each time, and a form was
\* submitted with invalid fields
C16_Witness ==
    /\ monitor.closes >= 2
    /\ monitor.attempts = monitor.closes + 1
    /\ monitor.ws = "open"
    /\ form.submits > form.issued

(***************************************************************************)
(* Claims about the service worker (checked under SpecWorker)              *)
(***************************************************************************)
\* C17: every fetch is answered cache-first: a request that matches a
\* stored response gets that response and causes no network request, any
\* other request goes to the network and gets the network's answer; the
\* cache holds nothing or exactly the pre-cache list, and a step of the
\* active worker never changes it
C17_CacheFirstFixedCache ==
    /\ [](LET l == worker.last
              hit == Match(cacheStorage, l.url, l.method)
          IN  l.source # "none"
              => IF hit # 0
                 THEN l.source = "cache" /\ l.body = hit /\ ~l.network
                 ELSE l.source = "network" /\ l.network
                      /\ l.body \in 0..site.version)
    /\ []({u \in Urls : cacheStorage[u] # 0} \in {{}, UrlsToCache})
    /\ [](worker.state = "active"
          => {u \in Urls : cacheStorage[u] # 0} = UrlsToCache)
    /\ [][worker.state = "active" => cacheStorage' = cacheStorage]_vars
    /\ [][worker.last' # worker.last /\ worker.last'.source = "network"
          => worker.last'.body = IF site.up THEN site.version ELSE 0]_vars

\* a cached page was served from the cache after a newer version had been
\* deployed, and the server was not asked
C17_Witness ==
    /\ worker.last.source = "cache"
    /\ worker.last.url = "/index.html"
    /\ worker.last.body < site.version
    /\ site.up
    /\ ~worker.last.network

(***************************************************************************)
(* Claims about the hero typewriter (checked under SpecHero)               *)
(***************************************************************************)
\* the typewriter has run to its end on this page
TypewriterDone == hero.playedHere /\ ~hero.timer

\* C18 (once per session): the typewriter starts only when the session flag
\* is unset and sets it, so it plays at most once per session, and a page
\* loaded with the flag set keeps its subtitle as it was
C18_AtMostOncePerSession ==
    /\ [](hero.plays <= 1)
    /\ [](hero.page = "loaded" /\ ~hero.playedHere => subtitle = hero.original)
    /\ [][hero.plays' > hero.plays => ~sessionStorage /\ sessionStorage']_vars

\* C18: the typewriter plays at most once per session, later page loads of
\* the session leave the subtitle untouched, and when the typewriter has
\* played to its end the subtitle holds its complete original content
C18_TypewriterOncePerSession ==
    /\ [](hero.plays <= 1)
    /\ [](hero.page = "loaded" /\ ~hero.playedHere => subtitle = hero.original)
    /\ [][hero.plays' > hero.plays => ~sessionStorage /\ sessionStorage']_vars
    /\ [](TypewriterDone => subtitle = hero.original)

(***************************************************************************)
(* Claims about debouncing (checked under SpecDebounce)                    *)
(***************************************************************************)
\* C20: a call never runs func itself; func runs only from a timer, when
\* `wait` ms have passed since the last call, once for all the calls since
\* its previous run and with the arguments of the last of them; while calls
\* are waiting exactly one timer is pending, and it eventually runs func
C20_OncePerBurstAfterWait ==
    /\ [](~debounced.sync)
    /\ [](IF debounced.burst > 0 THEN Len(debounced.timers) = 1
          ELSE debounced.timers = <<>>)
    /\ [][debounced.calls' # debounced.calls
          => debounced.invocations' = debounced.invocations]_vars
    /\ [][debounced.invocations' # debounced.invocations
          => /\ debounced.invocations' = debounced.invocations + 1
             /\ debounced.sinceCall >= debounced.wait
             /\ debounced.burst > 0
             /\ debounced.burst' = 0
             /\ debounced.last'.args
                   = Forwarded(debounced.impl, debounced.lastArgs)]_vars
    /\ (debounced.burst > 0) ~> (debounced.burst = 0)

\* Utils.debounce with wait 500: three calls in a burst, the last one with
\* other arguments than the first, and func ran once, with the last ones
C20_Witness ==
    /\ debounced.impl = "Utils.debounce"
    /\ debounced.wait = InputWait
    /\ debounced.calls = 3
    /\ debounced.invocations = 1
    /\ debounced.last.burst = 3
    /\ debounced.last.args = "b"
    /\ debounced.last.sinceCall >= InputWait

(***************************************************************************)
(* Claims about throttling (checked under SpecThrottle)                    *)
(***************************************************************************)
\* C21: func runs at most once per window of `limit` ms.  A call with the
\* window closed runs func at once with its own arguments and opens the
\* window; a call with the window open is dropped: it runs nothing, sets no
\* timer and is not replayed when the timer closes the window; two runs are
\* at least `limit` ms apart
C21_OncePerWindow ==
    /\ [](/\ Len(throttled.timers) <= 1
          /\ throttled.inThrottle <=> throttled.timers # <<>>
          /\ throttled.runs + throttled.dropped = throttled.calls)
    /\ [][throttled.runs' # throttled.runs
          => /\ throttled.runs' = throttled.runs + 1
             /\ throttled.calls' = throttled.calls + 1
             /\ throttled.ranWith' = throttled.lastArgs'
             /\ throttled.runs > 0 => throttled.sinceRun >= throttled.limit]_vars
    /\ [][throttled.calls' # throttled.calls
          => IF throttled.inThrottle
             THEN /\ throttled.runs' = throttled.runs
                  /\ throttled.ranWith' = throttled.ranWith
                  /\ throttled.timers' = throttled.timers
             ELSE /\ throttled.runs' = throttled.runs + 1
                  /\ throttled.inThrottle']_vars
    /\ [][throttled.calls' = throttled.calls
          => throttled.runs' = throttled.runs]_vars

\* a call ran func, a call with other arguments inside the window was
\* dropped, the window closed without a run, and the next call ran func
C21_Witness ==
    /\ throttled.runs = 2
    /\ throttled.dropped >= 1
    /\ throttled.calls = throttled.runs + throttled.dropped
    /\ throttled.ranWith = "a"
    /\ throttled.sinceRun = 0

(***************************************************************************)
(* Claims about EnergyApp's cleanup, stats and frame loop                  *)
(***************************************************************************)
\* C22 (frame half, under SpecApp and SpecLoop): after destroy() no frame
\* request of the particle loop is pending, so no frame callback runs
C22_NoFrameAfterDestroy ==
    [](app.state = "destroyed" => ~app.frame /\ app.pending = 0)

\* C22: destroy() is a complete cleanup: once it has returned no frame
\* request is pending, the stats interval is cleared, and updateStats never
\* runs again
C22_DestroyStopsEverything ==
    /\ [](app.state = "destroyed" => ~app.frame /\ app.pending = 0)
    /\ [](app.state = "destroyed" => ~stats.interval)
    /\ [](~stats.afterDestroy)

\* C23: every updateStats step leaves activeNodes at 100000 or more and
\* aiAccuracy within 99.5 .. 99.9, and does not lower energySaved
C23_StatsStayInBounds ==
    [][stats.updates' # stats.updates
       => /\ stats.activeNodes' >= 100000
          /\ stats.aiAccuracy' >= 995 * (AccuracyUnits \div 10)
          /\ stats.aiAccuracy' <= 999 * (AccuracyUnits \div 10)
          /\ stats.energySaved' >= stats.energySaved]_vars

\* setStats had put activeNodes below the bound and the next update
\* brought it back to 100000
C23_Witness ==
    /\ stats.updates >= 1
    /\ stats.clamped
    /\ stats.activeNodes = 100000

\* C24: whatever the order of start, pause, resume, visibility changes and
\* frames, at most one frame request of the particle loop is pending
C24_OneFrameLoop ==
    /\ [](app.pending <= 1)
    /\ [](app.frame <=> app.pending = 1)
    /\ [](app.pending = 1 /\ app.state = "ready" => app.animationId)

\* the loop was paused and resumed, frames have moved the particles, and
\* one request is pending
C24_Witness ==
    /\ app.state = "ready"
    /\ app.resumed
    /\ ~app.hidden
    /\ app.pending = 1
    /\ appParticles # <<>>
    /\ appParticles[1].y < ContainerHeight

(***************************************************************************)
(* Claims about EnergyMonitor's socket (checked under SpecMonitor)         *)
(***************************************************************************)
\* C25: once destroy() was called the monitor makes no connection attempt
\* any more, and the close that destroy() causes starts no reconnect timer
C25_NoReconnectAfterDestroy ==
    /\ [][monitor.destroyed => monitor.attempts' = monitor.attempts]_vars
    /\ [][monitor.destroyed /\ monitor.closes' # monitor.closes
          => monitor.timers' = monitor.timers]_vars

\* C26: the sockets that are connecting or open and the reconnect timers
\* that wait are together at most one, in every order of open, error and
\* close events
C26_OneSocketOrTimer ==
    /\ [](monitor.live + Len(monitor.timers) <= 1)
    /\ [](monitor.live = IF monitor.ws \in {"connecting", "open"} THEN 1 ELSE 0)
    /\ [](monitor.live >= 0)

\* a socket raised an error, then closed, and one reconnect timer waits
C26_Witness ==
    /\ monitor.errored
    /\ monitor.ws = "closed"
    /\ monitor.live = 0
    /\ Len(monitor.timers) = 1
    /\ monitor.closes >= 2

(***************************************************************************)
(* A claim about failed loads (checked under SpecLoader)                   *)
(***************************************************************************)
\* C27: a load that ends in the error state has left the bookkeeping as it
\* found it: it has put no entry for its path into componentCache (so that
\* a later load of the path fetches again) and the step that ends it adds
\* no id to loadedComponents
C27_FailedLoadLeavesNoTrace ==
    /\ [](\A l \in 1..MaxLoads : loads[l].outcome = "error" => ~loads[l].cached)
    /\ [][\A l \in 1..MaxLoads :
            (loads[l].outcome # "error" /\ loads'[l].outcome = "error")
            => /\ loadedComponents' = loadedComponents
               /\ componentCache' = componentCache]_vars

\* on a page that has navToggle, navMenu and navOverlay, once openNavigation
\* or closeNavigation has run the three elements are all active or all not
\* active, aria-expanded equals the open state, and the body's scrolling is
\* locked exactly when the navigation is open
C28_ConsistentWithAllThree ==
    (nav.called /\ NavMarked \subseteq nav.present) =>
        LET open == "navMenu" \in nav.active
        IN  /\ nav.active \cap NavMarked \in {{}, NavMarked}
            /\ (nav.ariaExpanded = "true") <=> open
            /\ (nav.overflow = "hidden") <=> open

\* the navigation has been opened on a page that has all three elements
C28_OpenedWithAllThree ==
    /\ nav.called
    /\ NavMarked \subseteq nav.present
    /\ NavMarked \subseteq nav.active
    /\ nav.ariaExpanded = "true"
    /\ nav.overflow = "hidden"

\* C28: after any sequence of openNavigation and closeNavigation calls on a
\* page that has the toggle and the menu, the elements of navToggle, navMenu
\* and navOverlay the page has are all active or all not active,
\* aria-expanded equals the open state, and the body's scrolling is locked
\* exactly when the navigation is open.
C28_NavigationConsistent ==
    (nav.called /\ {"navToggle", "navMenu"} \subseteq nav.present) =>
        LET open == "navMenu" \in nav.active
            marked == NavMarked \cap nav.present
        IN  /\ nav.active \cap NavMarked \in {{}, marked}
            /\ (nav.ariaExpanded = "true") <=> open
            /\ (nav.overflow = "hidden") <=> open

\* C29: for any sequence of calcNextStep and calcPrevStep calls,
\* currentCalcStep stays in 1..3 and exactly one calc-step is active, the one
\* numbered currentCalcStep; calcPrevStep at step 1 changes nothing, and
\* calcNextStep at step 3 shows the results without changing the step.
C29_StepInRangeOneActive ==
    /\ [](/\ steps.currentCalcStep \in 1..LastStep
          /\ steps.dom.active = {steps.currentCalcStep})
    /\ [][/\ (steps'.last = "prev" /\ steps.currentCalcStep = 1) =>
                 /\ steps'.currentCalcStep = steps.currentCalcStep
                 /\ steps'.dom = steps.dom
          /\ (steps'.last = "next" /\ steps.currentCalcStep = LastStep) =>
                 /\ steps'.currentCalcStep = steps.currentCalcStep
                 /\ steps'.dom.active = steps.dom.active
                 /\ steps'.dom.resultsShown]_steps

\* calcNextStep was called at step 3 and the results are shown, after
\* calcPrevStep had been called at step 1
C29_Witness ==
    /\ steps.currentCalcStep = LastStep
    /\ steps.last = "next"
    /\ steps.dom.resultsShown
    /\ steps.prevAtFirst

\* the array after is the array before with point appended, less its oldest
\* element if the array before was full
SlidOver(before, after, point) ==
    after = IF Len(before) = MaxDataPoints
            THEN Append(Tail(before), point)
            ELSE Append(before, point)

\* C30: the energy monitors' chart buffers are bounded sliding windows: after
\* any number of data updates the usage, production and timestamps arrays
\* have equal length, no buffer is longer than maxDataPoints, and each update
\* appends the newest point, dropping the oldest when the buffer was full.
C30_BoundedSlidingWindow ==
    /\ [](/\ Len(chart.usage) = Len(chart.production)
          /\ Len(chart.usage) = Len(chart.timestamps)
          /\ Len(chart.usage) <= MaxDataPoints
          /\ Len(chart.data) <= MaxDataPoints)
    /\ [][/\ chart'.updates # chart.updates =>
               /\ \E m \in ChartMessages :
                      SlidOver(chart.usage, chart'.usage,
                               FieldOrZero(m, "currentUsage"))
               /\ \E m \in ChartMessages :
                      SlidOver(chart.production, chart'.production,
                               FieldOrZero(m, "solarProduction"))
               /\ SlidOver(chart.timestamps, chart'.timestamps,
                           chart'.updates)
          /\ chart'.legacyUpdates # chart.legacyUpdates =>
               \E point \in SimulatedPoints :
                   SlidOver(chart.data, chart'.data, point)]_chart

\* both monitors have taken updates on full buffers: the three arrays are
\* full and the oldest timestamp left is not the first
C30_Witness ==
    /\ Len(chart.usage) = MaxDataPoints
    /\ chart.timestamps[1] > 1
    /\ chart.timestamps[MaxDataPoints] = chart.updates
    /\ chart.legacyUpdates > 0
    /\ Len(chart.data) = MaxDataPoints
====
